---- MODULE Spec2Model ----
(***************************************************************************)
(* A model of the iteratez action protocol: a cursor (Iterate) drives a    *)
(* source adapter, every view wraps its parent cursor, and a terminal      *)
(* operation or mutation installs the consumer callback at the outermost   *)
(* cursor.  One action of the model is one iteration (or the exit) of an   *)
(* adapter's loop, with the whole synchronous callback chain it triggers.  *)
(***************************************************************************)
EXTENDS Integers, Sequences, FiniteSets, TLC

(***************************************************************************)
(* Bounds of the model.                                                    *)
(***************************************************************************)
MaxLen == 3
MaxVal == 1
MaxChain == 2
MaxAmount == 2
MaxRuns == 2
MaxNodes == 4
MaxList == 3
MaxSmallLen == 2
MaxSmallVal == 2

\* The number of changes() calls on one cursor.
MaxCalls == 3

\* The number of stop / remove / replace calls a callback makes at one element.
MaxRequests == 2

\* The number of entries one traversal of a Map or Set is followed for.
MaxOffers == 4

Values == 0..MaxVal
Arrays == UNION {[1..n -> Values] : n \in 0..MaxLen}

(***************************************************************************)
(* null / undefined and a present value.                                   *)
(***************************************************************************)
Null == <<>>
Some(v) == <<v>>

(***************************************************************************)
(* The IterateAction enumeration.                                          *)
(***************************************************************************)
CONTINUE == "CONTINUE"
STOP == "STOP"
REMOVE == "REMOVE"
REPLACE == "REPLACE"
IterateAction == {CONTINUE, STOP, REMOVE, REPLACE}

(***************************************************************************)
(* Caller-supplied functions, drawn from small sets.                       *)
(***************************************************************************)
\* IterateFilter (value, key): 0 is the tests' x % 2 === 0, 1 is x > 0.
Filters == {0, 1}
Filter(p, value, key) == IF p = 0 THEN value % 2 = 0 ELSE value > 0

\* getNumberComparator(ascending): 0 ascending, 1 descending.
Comparators == {0, 1}
Compare(c, a, b) == IF c = 0 THEN a - b ELSE b - a

\* transform(transformer, untransformer): 0 maps x to x + 10 with no
\* untransformer, 1 maps x to x + 10 with an untransformer in whose result
\* each of its four arguments shows, 2 maps 0 to undefined (a filter-map)
\* with no untransformer.
Transformers == {0, 1, 2}
Transformer(t, value) ==
  IF t = 2 THEN (IF value = 0 THEN Null ELSE Some(value)) ELSE Some(value + 10)
HasUntransformer(t) == t = 1
Untransformer(t, replaceWith, current, value, key) ==
  replaceWith - current + 2 * value + 3 * key

\* update(updater): the updater adds one.
Updater(value, key) == value + 1

\* getEquality(): the default equality, defaultCompare(a, b, true) === 0.
IsEqual(a, b) == a = b

\* IterateEquals: 0 is the default equality, 1 is equality of parity; 2 + c is
\* the equality withComparator derives from the comparator c,
\* (a, b) => comparator(a, b) === 0.
Equalities == {0, 1}
Equals(e, a, b) ==
  CASE e = 0 -> IsEqual(a, b)
    [] e = 1 -> a % 2 = b % 2
    [] OTHER -> Compare(e - 2, a, b) = 0

\* getEquality(equalityOverride) of a cursor whose equality field is own:
\* the override, else the field, else the default equality.
getEquality(override, own) ==
  IF override # Null THEN override[1] ELSE IF own # Null THEN own[1] ELSE 0

(***************************************************************************)
(* State.  An array-backed cursor with a chain of views:                   *)
(* cursor 0 is Iterate.array(values), cursor m (m >= 1) is the view        *)
(* chain[m] built on cursor m - 1.  Cursor fields are sequences indexed by *)
(* cursor number + 1.                                                      *)
(***************************************************************************)
VARIABLES
  values,       \* the backing array captured by Iterate.array
  chain,        \* the views, innermost first
  action,       \* Iterate.action of every cursor
  replaceWith,  \* Iterate.replaceWith of every cursor
  result,       \* Iterate.result of every cursor
  data,         \* the per-traversal data of every view (getData())
  op,           \* the terminal operation or mutation in progress
  pc,           \* idle | array | returned | replay | replayed | done
  mode,         \* direct | resolve | apply: who consumes the parent pass
  i,            \* the array adapter's loop variable
  resolved,     \* viewResolved: the entries snapshot
  order,        \* viewResolved: the reordered replay list
  k,            \* viewResolved: position in the replay list
  recorded,     \* viewResolved: actions / replaces / original by index
  mindex,       \* viewResolved: index counter of the second pass
  visits,       \* history: elements offered by the array adapter
  calls,        \* history: callback invocations (Iterate.act calls)
  offered,      \* history: <<key, value>> pairs given to the consumer
  requests,     \* history: the consumer's answer to each offered pair
  orig,         \* history: the array when the traversal began
  initial,      \* history: the array when the cursor was made
  passes,       \* history: traversals of the array in this run
  runs,         \* history: terminal calls made on this chain
  last          \* history: outcome of the previous terminal call

arrVars == <<values, chain, action, replaceWith, result, data, op, pc, mode, i,
             resolved, order, k, recorded, mindex, visits, calls, offered,
             requests, orig, initial, passes, runs, last>>

(***************************************************************************)
(* State of a tree iterator: Iterate.tree(getValue, getChildren,           *)
(* replaceValue?)(startingNode, depthFirst, strict).  Nodes are 1..n, node *)
(* 1 is the starting node.                                                 *)
(***************************************************************************)
VARIABLES
  tchildren,    \* node -> its children array
  tvalue,       \* node -> its value
  tconf,        \* depthFirst, strict, and whether replaceValue was given
  tstack,       \* depth-first: the active child iterators, outermost first
  tqueue,       \* breadth-first: the queue
  tcur,         \* depth-first: the node handleAction is entered with, or 0
  tpc,          \* idle | visit | done | error
  taction,      \* Iterate.action of the tree cursor
  toffered,     \* history: the nodes offered to the consumer
  trequests,    \* history: the consumer's answer for each offered node
  tchildren0,   \* history: the children arrays the tree was built with
  tfirst        \* history: what an earlier traversal offered and was answered

treeVars == <<tchildren, tvalue, tconf, tstack, tqueue, tcur, tpc, taction,
              toffered, trequests, tchildren0, tfirst>>

(***************************************************************************)
(* State of a linked-list iterator: Iterate.linked(getValue, getNext,      *)
(* remove?, replaceValue?)(previousNode, strict).  Node 1 is previousNode, *)
(* 0 is null.                                                              *)
(***************************************************************************)
VARIABLES
  lnext,        \* node -> its next node
  lvalue,       \* node -> its value
  lconf,        \* strict, and whether remove / replaceValue were given
  lprev,        \* the loop's prev
  lcurr,        \* the loop's curr
  lpc,          \* idle | loop | done | error
  laction,      \* Iterate.action of the list cursor
  lcallback,    \* whether Iterate.callback of the list cursor is set
  loffered,     \* history: the nodes offered to the consumer
  lrequests,    \* history: the consumer's answer for each offered node
  lnext0        \* history: the links when the traversal began

linkVars == <<lnext, lvalue, lconf, lprev, lcurr, lpc, laction, lcallback,
              loffered, lrequests, lnext0>>

(***************************************************************************)
(* State of a joined iterator: a.append(b) or a.prepend(b), that is        *)
(* Iterate.join(a, b) or Iterate.join(b, a).  a is a cursor on the first   *)
(* array or a view of it; b is a cursor on the second array or a view of   *)
(* it, or another view of the cursor under a.                              *)
(***************************************************************************)
VARIABLES
  jarr,         \* the two arrays
  jconf,        \* kind (append | prepend), the cursors a and b
  jchild,       \* the position in `iterators` of the child being traversed
  ji,           \* the loop index of the array adapter under that child
  jdata,        \* the data of the child's view for this traversal
  jaction,      \* Iterate.action of the child cursor
  jreturned,    \* whether the array adapter under the child has returned
  jpc,          \* idle | loop | done
  joffered,     \* history: <<child, key, value>> offered to the consumer
  jrequests,    \* history: the consumer's answer for each of them
  jarr0         \* history: the arrays when the traversal began

joinVars == <<jarr, jconf, jchild, ji, jdata, jaction, jreturned, jpc, joffered,
              jrequests, jarr0>>

(***************************************************************************)
(* State of a.exclude(b) and a.intersect(b) over two arrays.               *)
(***************************************************************************)
VARIABLES
  ea,           \* the array a
  eb,           \* the array b
  eeq,          \* the equality passed to exclude / intersect, or null
  ekind,        \* the view being traversed: exclude | intersect | none
  ei,           \* the loop index of the array adapter of a
  epc,          \* idle | loop | done
  eoffered,     \* history: the <<key, value>> pairs the view forwarded
  eresults      \* history: what array() of each view returned

setVars == <<ea, eb, eeq, ekind, ei, epc, eoffered, eresults>>

(***************************************************************************)
(* State of a cursor with comparison logic and one view made from it.      *)
(***************************************************************************)
VARIABLES
  carr,         \* the array of the parent cursor
  ccmp,         \* Iterate.comparator of the parent, or null
  ceq,          \* Iterate.equality of the parent, or null
  cview,        \* the view made from the parent, or null
  cop,          \* the operation run last: none | view | min | max
  cpc,          \* idle | done | error
  cresult,      \* what the operation returned
  cfrom,        \* where its comparator came from: inline | own | default
  cbare         \* whether desc() was called without a comparator on the
                \* parent while it had none, and it was given none since

cmpVars == <<carr, ccmp, ceq, cview, cop, cpc, cresult, cfrom, cbare>>

(***************************************************************************)
(* State of Iterate.zip over a keys array and a values array.              *)
(***************************************************************************)
VARIABLES
  zk,           \* the keys array
  zv,           \* the values array
  zop,          \* the operation run on the zip cursor
  zpc,          \* idle | values | keys | done
  zkeysArray,   \* keysArray: the copy of the keys taken by keyIterator.array()
  zremoveKeyAt, \* removeKeyAt
  zindex,       \* valuesIndex in the values pass, keysIndex in the keys pass
  zi,           \* the loop index of the array adapter being traversed
  zreturned,    \* whether that adapter has returned
  zoffered,     \* history: the <<key, value>> pairs zip gave to act
  zstarted,     \* history: the keys and values when the traversal began
  zruns         \* history: operations run on the zip cursor

zipVars == <<zk, zv, zop, zpc, zkeysArray, zremoveKeyAt, zindex, zi, zreturned,
             zoffered, zstarted, zruns>>

(***************************************************************************)
(* State of a traversal of a cursor with traversals of its clone run       *)
(* inside the callback.                                                    *)
(***************************************************************************)
VARIABLES
  nvalues,      \* the array
  nfilter,      \* null when the cursor is the array cursor, else the filter
                \* of the where view the cursor is
  ncur,         \* callback, action and result of the array cursor (root),
                \* the where view (view) and the clone (clone)
  ni,           \* the loop index of the outer traversal's array adapter
  npc,          \* idle | loop | done | error
  ncalls,       \* history: the keys the outer callback was invoked with
  nrequests,    \* history: the action the outer callback requested
  ninner        \* history: invocations of the nested traversals' callback

nestVars == <<nvalues, nfilter, ncur, ni, npc, ncalls, nrequests, ninner>>

(***************************************************************************)
(* State of a traversal of drop(amount), which is                          *)
(* this.reverse().skip(amount).reverse(), over an array.                    *)
(***************************************************************************)
VARIABLES
  dvalues,      \* the array
  damount,      \* the amount given to drop
  dop,          \* the operation run on the drop view
  dpc,          \* idle | replay | apply | modify | done
  douter,       \* outer reverse: values, a loop position and the recorded
                \* actions by index
  dinner,       \* inner reverse, in the outer one's second pass: the same
  dskipped,     \* skip, in that pass: data.skipped
  dindex,       \* the index counter of the second pass in progress
  di,           \* the loop index of the array adapter in the last pass
  dreturned,    \* whether the outer reverse's loop has returned on STOP
  doffered,     \* history: the <<key, value>> pairs given to the consumer
  drequests,    \* history: the consumer's answers
  dstarted      \* history: the array when the traversal began

dropVars == <<dvalues, damount, dop, dpc, douter, dinner, dskipped, dindex, di,
              dreturned, doffered, drequests, dstarted>>

(***************************************************************************)
(* State of a cursor over an array and of a copy() of it.  Arrays are      *)
(* objects of a heap; a cursor holds the reference of its array.           *)
(***************************************************************************)
VARIABLES
  yheap,        \* reference -> array: 1 is the caller's array, 2 the array
                \* made by entries() for the copy
  yfilter,      \* null when copy() is called on the array cursor, else the
                \* filter of the where view it is called on
  ycopy,        \* the cursor copy() returned, or null
  ytaken,       \* history: the entries of the cursor when copy() was called
  ytarget,      \* the cursor of the operation in progress: orig | copy
  yop,          \* the operation
  yi,           \* the loop index of the adapter traversed
  ypc,          \* idle | loop | done
  yoffered,     \* history: the <<key, value>> pairs given to the callback
  ybefore,      \* history: the heap when the operation began
  ytouched,     \* history: whether a mutation was run on the copy
  yruns         \* history: operations run

copyVars == <<yheap, yfilter, ycopy, ytaken, ytarget, yop, yi, ypc, yoffered,
              ybefore, ytouched, yruns>>


\* changes() on an array cursor whose array is modified between the calls:
\* the array, the getIdentifier chosen, the cursor's history map (Null
\* until the first call), the call's notRemoved map, the position of the
\* loop, the cursor's result, the identifiers each handler was invoked for
\* in the call, the identifiers of the source at this and at the previous
\* call, the number of calls, and whether every source so far had pairwise
\* distinct identifiers.
VARIABLES hsource, hident, hhistory, hnotRemoved, hindex, hpc, hresult,
          hadded, hpresent, hremoved, hnow, hprev, hcalls, hdistinct

changesVars == <<hsource, hident, hhistory, hnotRemoved, hindex, hpc, hresult,
                 hadded, hpresent, hremoved, hnow, hprev, hcalls, hdistinct>>


\* Iterate.iterable and Iterate.hasEntries: the adapter, the hooks given,
\* the entries of the source, the position of its iterator, the position
\* of the loop, the pairs offered with the action answered, the entries
\* when the traversal began, whether a REMOVE or REPLACE was answered that
\* the adapter has no hook for, whether a STOP or a REMOVE or REPLACE with
\* its hook was answered, and the number of traversals.
VARIABLES gkind, gonRemove, gonReplace, gentries, gnext, gpc, goffered,
          gbefore, gunsupported, gchanged, gruns

genericVars == <<gkind, gonRemove, gonReplace, gentries, gnext, gpc, goffered,
                 gbefore, gunsupported, gchanged, gruns>>


\* each(callback) on an array cursor with a callback that makes any
\* sequence of stop / remove / replace calls at an element, followed by
\* withResult: the array, the loop index, the position of the traversal,
\* the cursor's action, replaceWith, result and whether its callback is
\* set, the last exchange (the calls made, what act returned, the array
\* before and after the adapter handled it), what act returned for the
\* element before, the last stop call of the traversal, the values
\* getResult was called with, whether withResult was called, and the
\* number of traversals.
VARIABLES pvalues, pindex, ppc, paction, preplaceWith, presult, pcallback,
          pexchange, pprevious, plastStop, pgot, pasked, pruns

protocolVars == <<pvalues, pindex, ppc, paction, preplaceWith, presult, pcallback,
                  pexchange, pprevious, plastStop, pgot, pasked, pruns>>


\* Iterate.map and Iterate.set with reset: the kind, the sources (1 is the
\* Map or Set the cursor was made for, 2 the one given to reset, empty
\* until then), each as the sequence of its entries in insertion order,
\* the source the variable hasEntries of the adapter refers to, the
\* operation, the number of entries the source's iterator has passed, the
\* position of the traversal, the values offered, the entries of the
\* source traversed when the traversal began, whether reset was called,
\* the first source as it was then, and the number of traversals.
VARIABLES rkind, rheap, rsource, rop, rnext, rpc, roffered, rstart, rreset,
          rfrozen, rruns

keyedVars == <<rkind, rheap, rsource, rop, rnext, rpc, roffered, rstart, rreset,
               rfrozen, rruns>>


\* iterate(s): the source s, the position in Generators of the generator
\* tried next, the cursor returned (null until then), the position of the
\* traversal, its loop index, and the elements offered.
VARIABLES usource, ugenerator, ucursor, upc, uindex, uoffered

iterateVars == <<usource, ugenerator, ucursor, upc, uindex, uoffered>>


\* a.exclude(other) and a.intersect(other) where other may be a itself or
\* a view of it: the array of a, the other source (the cursor a, a where
\* view of a, or a second array), exclude or intersect, the fields of the
\* cursor a, the loop index of the outer traversal, its position, and the
\* pairs offered to the consumer.
VARIABLES xvalues, xother, xkind, xcur, xi, xpc, xoffered

reentryVars == <<xvalues, xother, xkind, xcur, xi, xpc, xoffered>>

vars == <<arrVars, treeVars, linkVars, joinVars, setVars, cmpVars, zipVars, nestVars, dropVars, copyVars, changesVars, genericVars, protocolVars, keyedVars, iterateVars, reentryVars>>

notArrVars == <<treeVars, linkVars, joinVars, setVars, cmpVars, zipVars, nestVars, dropVars, copyVars, changesVars, genericVars, protocolVars, keyedVars, iterateVars, reentryVars>>
notTreeVars == <<arrVars, linkVars, joinVars, setVars, cmpVars, zipVars, nestVars, dropVars, copyVars, changesVars, genericVars, protocolVars, keyedVars, iterateVars, reentryVars>>
notLinkVars == <<arrVars, treeVars, joinVars, setVars, cmpVars, zipVars, nestVars, dropVars, copyVars, changesVars, genericVars, protocolVars, keyedVars, iterateVars, reentryVars>>
notJoinVars == <<arrVars, treeVars, linkVars, setVars, cmpVars, zipVars, nestVars, dropVars, copyVars, changesVars, genericVars, protocolVars, keyedVars, iterateVars, reentryVars>>
notSetVars == <<arrVars, treeVars, linkVars, joinVars, cmpVars, zipVars, nestVars, dropVars, copyVars, changesVars, genericVars, protocolVars, keyedVars, iterateVars, reentryVars>>
notCmpVars == <<arrVars, treeVars, linkVars, joinVars, setVars, zipVars, nestVars, dropVars, copyVars, changesVars, genericVars, protocolVars, keyedVars, iterateVars, reentryVars>>
notZipVars == <<arrVars, treeVars, linkVars, joinVars, setVars, cmpVars, nestVars, dropVars, copyVars, changesVars, genericVars, protocolVars, keyedVars, iterateVars, reentryVars>>
notNestVars == <<arrVars, treeVars, linkVars, joinVars, setVars, cmpVars, zipVars, dropVars, copyVars, changesVars, genericVars, protocolVars, keyedVars, iterateVars, reentryVars>>
notDropVars == <<arrVars, treeVars, linkVars, joinVars, setVars, cmpVars, zipVars, nestVars, copyVars, changesVars, genericVars, protocolVars, keyedVars, iterateVars, reentryVars>>
notCopyVars == <<arrVars, treeVars, linkVars, joinVars, setVars, cmpVars, zipVars, nestVars, dropVars, changesVars, genericVars, protocolVars, keyedVars, iterateVars, reentryVars>>
notChangesVars == <<arrVars, treeVars, linkVars, joinVars, setVars, cmpVars, zipVars, nestVars, dropVars, copyVars, genericVars, protocolVars, keyedVars, iterateVars, reentryVars>>
notGenericVars == <<arrVars, treeVars, linkVars, joinVars, setVars, cmpVars, zipVars, nestVars, dropVars, copyVars, changesVars, protocolVars, keyedVars, iterateVars, reentryVars>>
notProtocolVars == <<arrVars, treeVars, linkVars, joinVars, setVars, cmpVars, zipVars, nestVars, dropVars, copyVars, changesVars, genericVars, keyedVars, iterateVars, reentryVars>>
notKeyedVars == <<arrVars, treeVars, linkVars, joinVars, setVars, cmpVars, zipVars, nestVars, dropVars, copyVars, changesVars, genericVars, protocolVars, iterateVars, reentryVars>>
notIterateVars == <<arrVars, treeVars, linkVars, joinVars, setVars, cmpVars, zipVars, nestVars, dropVars, copyVars, changesVars, genericVars, protocolVars, keyedVars, reentryVars>>
notReentryVars == <<arrVars, treeVars, linkVars, joinVars, setVars, cmpVars, zipVars, nestVars, dropVars, copyVars, changesVars, genericVars, protocolVars, keyedVars, iterateVars>>


(***************************************************************************)
(* Views.  A view is a record <<kind, arg>>; constructing one stores the   *)
(* closure and does nothing else.                                          *)
(***************************************************************************)
View(kind, arg) == [kind |-> kind, arg |-> arg]

empty == View("empty", 0)
where(p) == View("where", p)
not(p) == View("not", p)
take(amount) == IF amount <= 0 THEN empty ELSE View("take", amount)
skip(amount) == View("skip", amount)
transform(t) == View("transform", t)
valuesView == View("values", 0)
keysView == View("keys", 0)
readonly == View("readonly", 0)
unique(equality) == View("unique", equality)
duplicates(onlyOnce, equality) ==
  View("duplicates", (IF onlyOnce THEN 1 ELSE 0) + 2 * equality)
sorted(c) == View("sorted", c)
reverse == View("reverse", 0)

ResolvedKinds == {"sorted", "reverse"}
GenericKinds == {"where", "not", "take", "skip", "unique", "duplicates"}

StreamViews ==
  {where(p) : p \in Filters} \cup {not(p) : p \in Filters}
    \cup {take(a) : a \in (-1)..MaxAmount} \cup {skip(a) : a \in 0..MaxAmount}
    \cup {transform(t) : t \in Transformers} \cup {valuesView, keysView, readonly}
BufferViews ==
  {unique(e) : e \in Equalities}
    \cup {duplicates(o, e) : o \in BOOLEAN, e \in Equalities}
ResolvedViews == {sorted(c) : c \in Comparators} \cup {reverse}
AllViews == StreamViews \cup BufferViews \cup ResolvedViews

\* Views whose traversal is not modelled; only their construction is.
LazyViews == {View("shuffle", 0), View("exclude", 0), View("intersect", 0),
              View("append", 0), View("prepend", 0)}

\* drop(amount) is this.reverse().skip(amount).reverse(): three cursors.
drop(amount) == <<reverse, skip(amount), reverse>>

\* What one call of a view method appends to the chain.
ViewCalls(views) == {<<v>> : v \in views}
DropCalls == {drop(a) : a \in 0..MaxAmount}

\* The number of views; cursors are numbered 0..N.
N == Len(chain)

\* The position of the materializing view of the chain, 0 if none.
ResolvedAt ==
  IF \E m \in 1..N : chain[m].kind \in ResolvedKinds
  THEN CHOOSE m \in 1..N : chain[m].kind \in ResolvedKinds
  ELSE 0

\* The position of the outermost Iterate.empty() of the chain, 0 if none.
EmptyAt ==
  IF \E m \in 1..N : chain[m].kind = "empty"
  THEN CHOOSE m \in 1..N :
         chain[m].kind = "empty" /\ \A m2 \in (m + 1)..N : chain[m2].kind # "empty"
  ELSE 0

\* The chains whose traversal is modelled: one materializing view at most.
Traversable ==
  /\ \A m \in 1..N : chain[m] \notin LazyViews
  /\ Cardinality({m \in 1..N : chain[m].kind \in ResolvedKinds}) <= 1

(***************************************************************************)
(* The data a view's getData() makes at the start of every traversal.      *)
(***************************************************************************)
NoData == [amount |-> 0, skipped |-> 0, existing |-> <<>>, once |-> {}, index |-> 0]

getData(v) ==
  IF v.kind = "take" THEN [NoData EXCEPT !.amount = v.arg] ELSE NoData

\* The equality unique / duplicates were given (0 when none was, which
\* getEquality resolves to the default), and duplicates' onlyOnce.
isEqualOf(v) == IF v.kind = "unique" THEN v.arg ELSE v.arg \div 2
onlyOnceOf(v) == v.arg % 2 = 1

\* Variant: the seen pairs are searched with the default equality.
FindIndexByDefault(existing, value, e) ==
  IF \E x \in 1..Len(existing) : IsEqual(existing[x][2], value)
  THEN CHOOSE x \in 1..Len(existing) :
         /\ IsEqual(existing[x][2], value)
         /\ \A y \in 1..(x - 1) : ~IsEqual(existing[y][2], value)
  ELSE 0

\* Array.findIndex over the seen pairs: the first position (from 1) whose
\* value is equal, 0 when there is none.
FindIndex(existing, value, e) ==
  IF \E x \in 1..Len(existing) : Equals(e, existing[x][2], value)
  THEN CHOOSE x \in 1..Len(existing) :
         /\ Equals(e, existing[x][2], value)
         /\ \A y \in 1..(x - 1) : ~Equals(e, existing[y][2], value)
  ELSE 0

\* shouldAct of the views built on Iterate.view.
shouldAct(v, d, value, key) ==
  CASE v.kind = "where" -> Filter(v.arg, value, key)
    [] v.kind = "not" -> ~Filter(v.arg, value, key)
    [] v.kind = "take" -> d.amount > 0
    [] v.kind = "skip" -> d.skipped >= v.arg
    [] v.kind = "unique" -> FindIndex(d.existing, value, isEqualOf(v)) = 0
    [] v.kind = "duplicates" ->
         LET index == FindIndex(d.existing, value, isEqualOf(v))
         IN  index # 0 /\ ~(index \in d.once /\ onlyOnceOf(v))
    [] OTHER -> TRUE

\* What shouldAct itself writes to the data (duplicates only).
shouldActData(v, d, value, key) ==
  IF v.kind = "duplicates"
  THEN LET index == FindIndex(d.existing, value, isEqualOf(v))
       IN  IF index # 0
           THEN [d EXCEPT !.once = @ \cup {index}]
           ELSE [d EXCEPT !.existing = Append(@, <<key, value>>)]
  ELSE d

(***************************************************************************)
(* Cursor methods, on the record c of cursor fields threaded through one   *)
(* synchronous callback chain.                                             *)
(***************************************************************************)
stop(c, j, res) == [c EXCEPT !.result[j + 1] = res, !.action[j + 1] = STOP]
remove(c, j) == [c EXCEPT !.action[j + 1] = REMOVE]
replace(c, j, w) ==
  [c EXCEPT !.replaceWith[j + 1] = Some(w), !.action[j + 1] = REPLACE]

\* Variant: STOP of the view's cursor is not re-issued on the parent.
ForwardWithoutStop(c, next, prev) ==
  CASE c.action[next + 1] = REMOVE -> remove(c, prev)
    [] c.action[next + 1] = REPLACE -> replace(c, prev, c.replaceWith[next + 1][1])
    [] OTHER -> c

\* Variant: REPLACE of the view's cursor is dropped, REMOVE becomes STOP.
ForwardWithoutMutation(c, next, prev) ==
  CASE c.action[next + 1] = STOP -> stop(c, prev, Null)
    [] c.action[next + 1] = REMOVE -> stop(c, prev, Null)
    [] OTHER -> c

\* The switch of Iterate.view on next.act(...): every action of the view's
\* cursor is re-issued on the parent cursor.
Forward(c, next, prev) ==
  CASE c.action[next + 1] = STOP -> stop(c, prev, Null)
    [] c.action[next + 1] = REMOVE -> remove(c, prev)
    [] c.action[next + 1] = REPLACE -> replace(c, prev, c.replaceWith[next + 1][1])
    [] OTHER -> c

\* Variant: readonly re-issues REMOVE and REPLACE like any other view.
ForwardReadonlyLeaky(c, next, prev) ==
  CASE c.action[next + 1] = STOP -> stop(c, prev, Null)
    [] c.action[next + 1] = REMOVE -> remove(c, prev)
    [] c.action[next + 1] = REPLACE -> replace(c, prev, c.replaceWith[next + 1][1])
    [] OTHER -> c

\* readonly: only STOP is re-issued.
ForwardReadonly(c, next, prev) ==
  IF c.action[next + 1] = STOP THEN stop(c, prev, Null) ELSE c

\* Variant: keys re-issues REPLACE like values.
ForwardKeysReplacing(c, next, prev) ==
  CASE c.action[next + 1] = STOP -> stop(c, prev, Null)
    [] c.action[next + 1] = REMOVE -> remove(c, prev)
    [] c.action[next + 1] = REPLACE -> replace(c, prev, c.replaceWith[next + 1][1])
    [] OTHER -> c

\* keys: STOP and REMOVE are re-issued, REPLACE is not supported.
ForwardKeys(c, next, prev) ==
  CASE c.action[next + 1] = STOP -> stop(c, prev, Null)
    [] c.action[next + 1] = REMOVE -> remove(c, prev)
    [] OTHER -> c

\* transform: REPLACE goes through the untransformer, or is dropped.
ForwardTransformUnmapped(c, next, prev, t, nextItem, prevItem, prevKey) ==
  CASE c.action[next + 1] = STOP -> stop(c, prev, Null)
    [] c.action[next + 1] = REMOVE -> remove(c, prev)
    [] c.action[next + 1] = REPLACE -> replace(c, prev, c.replaceWith[next + 1][1])
    [] OTHER -> c

ForwardTransform(c, next, prev, t, nextItem, prevItem, prevKey) ==
  CASE c.action[next + 1] = STOP -> stop(c, prev, Null)
    [] c.action[next + 1] = REMOVE -> remove(c, prev)
    [] c.action[next + 1] = REPLACE ->
         IF HasUntransformer(t)
         THEN replace(c, prev,
                Untransformer(t, c.replaceWith[next + 1][1], nextItem, prevItem, prevKey))
         ELSE c
    [] OTHER -> c

\* Variant: take does not count the elements it forwards.
afterActWithoutCount(v, c, m, value, key) ==
  CASE v.kind = "skip" -> [c EXCEPT !.data[m].skipped = @ + 1]
    [] v.kind = "unique" -> [c EXCEPT !.data[m].existing = Append(@, <<key, value>>)]
    [] OTHER -> c

\* afterAct / afterSkip of take, skip and unique.
afterAct(v, c, m, value, key) ==
  CASE v.kind = "take" -> [c EXCEPT !.data[m].amount = @ - 1]
    [] v.kind = "skip" -> [c EXCEPT !.data[m].skipped = @ + 1]
    [] v.kind = "unique" -> [c EXCEPT !.data[m].existing = Append(@, <<key, value>>)]
    [] OTHER -> c

afterSkip(v, c, m) ==
  CASE v.kind = "take" -> stop(c, m - 1, Null)
    [] v.kind = "skip" -> [c EXCEPT !.data[m].skipped = @ + 1]
    [] OTHER -> c

(***************************************************************************)
(* The consumers.                                                          *)
(***************************************************************************)
Req(act, with, res) == [act |-> act, with |-> with, res |-> res]

\* What the callback of a terminal operation or mutation requests.
\* each(callback) takes any callback: its request is the input `any`.
Request(o, value, key, any) ==
  CASE o.name = "first" -> Req(STOP, Null, Some(value))
    [] o.name = "delete" -> Req(REMOVE, Null, Null)
    [] o.name = "extract" -> Req(REMOVE, Null, Null)
    [] o.name = "overwrite" -> Req(REPLACE, Some(o.arg), Null)
    [] o.name = "update" -> Req(REPLACE, Some(Updater(value, key)), Null)
    [] o.name = "each" -> any
    [] OTHER -> Req(CONTINUE, Null, Null)

\* The consumer callback at the outermost cursor j.
Consumer(j, value, key, c, any) ==
  LET r == Request(op, value, key, any)
      c1 == [c EXCEPT !.offered = Append(@, <<key, value>>),
                      !.requests = Append(@, r.act)]
  IN  CASE r.act = STOP -> stop(c1, j, r.res)
        [] r.act = REMOVE -> remove(c1, j)
        [] r.act = REPLACE -> replace(c1, j, r.with[1])
        [] OTHER -> c1

\* The callback of entries(): push [key, value].
Collector(j, value, key, c) ==
  [c EXCEPT !.resolved = Append(@, <<key, value>>)]

\* Variant: the second pass finds the recorded action by the value alone.
ModifierByValue(j, value, key, c) ==
  LET c1 == [c EXCEPT !.mindex = @ + 1]
      hits == {x \in DOMAIN recorded : value = recorded[x].original}
  IN  IF hits # {}
      THEN LET index == CHOOSE x \in hits : \A y \in hits : x <= y
           IN  CASE recorded[index].action = REMOVE -> remove(c1, j)
                 [] recorded[index].action = REPLACE ->
                      replace(c1, j, recorded[index].replaces[1])
                 [] OTHER -> c1
      ELSE c1

\* Variant: the second pass never advances its index counter.
ModifierWithoutCount(j, value, key, c) ==
  LET index == c.mindex
  IN  IF index \in DOMAIN recorded /\ value = recorded[index].original
      THEN CASE recorded[index].action = REMOVE -> remove(c, j)
             [] recorded[index].action = REPLACE ->
                  replace(c, j, recorded[index].replaces[1])
             [] OTHER -> c
      ELSE c

\* The callback of viewResolved's second pass.
Modifier(j, value, key, c) ==
  LET index == c.mindex
      c1 == [c EXCEPT !.mindex = @ + 1]
  IN  IF index \in DOMAIN recorded /\ value = recorded[index].original
      THEN CASE recorded[index].action = REMOVE -> remove(c1, j)
             [] recorded[index].action = REPLACE ->
                  replace(c1, j, recorded[index].replaces[1])
             [] OTHER -> c1
      ELSE c1

(***************************************************************************)
(* Iterate.act on cursor j, with the callback installed on it: the next    *)
(* view's closure, or at cursor `top` the consumer of this pass.           *)
(***************************************************************************)
RECURSIVE Act(_, _, _, _, _, _)

\* The closure a view m installs on its parent cursor m - 1.
ViewCallback(m, value, key, c, top, any) ==
  LET v == chain[m] IN
  CASE v.kind \in GenericKinds ->
         LET d == c.data[m]
             c1 == [c EXCEPT !.data[m] = shouldActData(v, d, value, key)]
         IN  IF shouldAct(v, d, value, key)
             THEN afterAct(v, Forward(Act(m, value, key, c1, top, any), m, m - 1),
                           m, value, key)
             ELSE afterSkip(v, c1, m)
    [] v.kind = "values" ->
         Forward(Act(m, value, 0, c, top, any), m, m - 1)
    [] v.kind = "keys" ->
         LET index == c.data[m].index
             c1 == [c EXCEPT !.data[m].index = @ + 1]
         IN  ForwardKeys(Act(m, key, index, c1, top, any), m, m - 1)
    [] v.kind = "readonly" ->
         ForwardReadonly(Act(m, value, key, c, top, any), m, m - 1)
    [] v.kind = "transform" ->
         LET nextItem == Transformer(v.arg, value)
         IN  IF nextItem # Null
             THEN ForwardTransform(Act(m, nextItem[1], key, c, top, any), m, m - 1,
                                   v.arg, nextItem[1], value, key)
             ELSE c
    [] OTHER -> c

Act(j, value, key, c, top, any) ==
  LET c0 == [c EXCEPT !.action[j + 1] = CONTINUE,
                      !.replaceWith[j + 1] = Null,
                      !.calls = @ + 1]
  IN  IF j < top THEN ViewCallback(j + 1, value, key, c0, top, any)
      ELSE CASE mode = "resolve" -> Collector(j, value, key, c0)
             [] mode = "apply" -> Modifier(j, value, key, c0)
             [] OTHER -> Consumer(j, value, key, c0, any)


(***************************************************************************)
(* viewResolved: the reorderings of the snapshot.  An element of the       *)
(* replay list is <<key, value, index>>, index being the position (from 0) *)
(* of the pair in the snapshot.                                            *)
(***************************************************************************)
Mapped(entries) ==
  [x \in 1..Len(entries) |->
     [key |-> entries[x][1], value |-> entries[x][2], index |-> x - 1]]

\* Array.prototype.sort with compare(a.value, b.value), a stable sort:
\* e goes after every element that does not compare greater than it.
InsertSorted(cmp, s, e) ==
  LET after == {x \in 1..Len(s) : Compare(cmp, s[x].value, e.value) > 0}
      at == IF after = {} THEN Len(s) + 1
            ELSE CHOOSE x \in after : \A y \in after : x <= y
  IN  SubSeq(s, 1, at - 1) \o <<e>> \o SubSeq(s, at, Len(s))

RECURSIVE SortFrom(_, _, _, _)
SortFrom(cmp, m, x, acc) ==
  IF x > Len(m) THEN acc ELSE SortFrom(cmp, m, x + 1, InsertSorted(cmp, acc, m[x]))

Sorted(cmp, entries) == SortFrom(cmp, Mapped(entries), 1, <<>>)

Reversed(entries) ==
  LET m == Mapped(entries) IN [x \in 1..Len(m) |-> m[Len(m) + 1 - x]]

\* The replay list the view v makes of the snapshot.
onResolve(v, entries) ==
  IF v.kind = "sorted" THEN Sorted(v.arg, entries) ELSE Reversed(entries)

(***************************************************************************)
(* The cursor fields threaded through one callback chain, read from and    *)
(* written back to the state.                                              *)
(***************************************************************************)
Undefined == "undefined"

CS == [action |-> action, replaceWith |-> replaceWith, result |-> result,
       data |-> data, offered |-> offered, requests |-> requests,
       calls |-> calls, resolved |-> resolved, mindex |-> mindex]

SetCS(c) ==
  /\ action' = c.action
  /\ replaceWith' = c.replaceWith
  /\ result' = c.result
  /\ data' = c.data
  /\ offered' = c.offered
  /\ requests' = c.requests
  /\ calls' = c.calls
  /\ resolved' = c.resolved
  /\ mindex' = c.mindex

\* Variant: each() keeps the data the views made in the previous traversal.
eachWithStaleData(c, lo, hi) ==
  [c EXCEPT
     !.result = [j \in 1..Len(@) |-> IF j - 1 \in lo..hi THEN Null ELSE @[j]],
     !.action = [j \in 1..Len(@) |-> IF j - 1 \in lo..hi THEN CONTINUE ELSE @[j]],
     !.data = [m \in 1..Len(@) |->
                 IF m \in lo..hi /\ @[m] = NoData THEN getData(chain[m]) ELSE @[m]]]

\* Iterate.each on the cursors lo..hi: result and action are reset, and the
\* adapters of the views among them make their data anew.
each(c, lo, hi) ==
  [c EXCEPT
     !.result = [j \in 1..Len(@) |-> IF j - 1 \in lo..hi THEN Null ELSE @[j]],
     !.action = [j \in 1..Len(@) |-> IF j - 1 \in lo..hi THEN CONTINUE ELSE @[j]],
     !.data = [m \in 1..Len(@) |-> IF m \in lo..hi THEN getData(chain[m]) ELSE @[m]]]

\* Variant: the constructor runs the source closure once.
NewIterateEager(b, v) ==
  [b EXCEPT !.chain = Append(@, v),
            !.action = Append(@, Undefined),
            !.replaceWith = Append(@, Null),
            !.result = Append(@, Null),
            !.data = Append(@, NoData),
            !.visits = @ + Len(b.values)]

(***************************************************************************)
(* The constructor: new Iterate(source, parent) stores the closure.  The   *)
(* record b holds the chain, the fields of its cursors and the source.     *)
(***************************************************************************)
NewIterate(b, v) ==
  [b EXCEPT !.chain = Append(@, v),
            !.action = Append(@, Undefined),
            !.replaceWith = Append(@, Null),
            !.result = Append(@, Null),
            !.data = Append(@, NoData)]

\* Variant: the loop index is not decremented after a splice.
ArrayLoopWithoutDecrement(vals, idx, a, w) ==
  CASE a = STOP -> [values |-> vals, i |-> idx, returned |-> TRUE]
    [] a = REMOVE ->
         [values |-> SubSeq(vals, 1, idx) \o SubSeq(vals, idx + 2, Len(vals)),
          i |-> idx + 1, returned |-> FALSE]
    [] a = REPLACE ->
         [values |-> [vals EXCEPT ![idx + 1] = w[1]], i |-> idx + 1, returned |-> FALSE]
    [] OTHER -> [values |-> vals, i |-> idx + 1, returned |-> FALSE]

(***************************************************************************)
(* The array adapter: one iteration of the for loop of Iterate.array, on   *)
(* the action a (and replacement w) that iterator.act returned.            *)
(***************************************************************************)
ArrayLoop(vals, idx, a, w) ==
  CASE a = STOP -> [values |-> vals, i |-> idx, returned |-> TRUE]
    [] a = REMOVE ->
         [values |-> SubSeq(vals, 1, idx) \o SubSeq(vals, idx + 2, Len(vals)),
          i |-> idx, returned |-> FALSE]
    [] a = REPLACE ->
         [values |-> [vals EXCEPT ![idx + 1] = w[1]], i |-> idx + 1, returned |-> FALSE]
    [] OTHER -> [values |-> vals, i |-> idx + 1, returned |-> FALSE]

(***************************************************************************)
(* Operations and the requests an each() callback may make.                *)
(***************************************************************************)
Op(name, arg) == [name |-> name, arg |-> arg]
Replacement == MaxVal + 7
ReadOps == {Op("first", 0), Op("array", 0)}
Mutations == {Op("delete", 0), Op("extract", 0), Op("overwrite", 0),
              Op("overwrite", Replacement), Op("update", 0)}
EachOp == Op("each", 0)
NoOp == Op("none", 0)

AnyRequests ==
  {Req(CONTINUE, Null, Null), Req(STOP, Null, Null), Req(REMOVE, Null, Null),
   Req(REPLACE, Some(Replacement), Null)}

Inputs == IF op = EachOp THEN AnyRequests ELSE {Req(CONTINUE, Null, Null)}

\* What a terminal call returned: the pairs the consumer saw and the result
\* left on the outermost cursor.
Outcome == [op |-> op, offered |-> offered, result |-> result[N + 1]]

\* The cursor whose callback consumes the pass over the array.
Top == IF mode = "direct" THEN N ELSE ResolvedAt - 1

ArrInit(arrays) ==
  /\ values \in arrays
  /\ chain = <<>>
  /\ action = <<Undefined>>
  /\ replaceWith = <<Null>>
  /\ result = <<Null>>
  /\ data = <<>>
  /\ op = NoOp
  /\ pc = "idle"
  /\ mode = "direct"
  /\ i = 0
  /\ resolved = <<>>
  /\ order = <<>>
  /\ k = 0
  /\ recorded = <<>>
  /\ mindex = 0
  /\ visits = 0
  /\ calls = 0
  /\ offered = <<>>
  /\ requests = <<>>
  /\ orig = values
  /\ initial = values
  /\ passes = 0
  /\ runs = 0
  /\ last = Null

RECURSIVE NewIterates(_, _)
NewIterates(b, vs) ==
  IF vs = <<>> THEN b ELSE NewIterates(NewIterate(b, Head(vs)), Tail(vs))

\* A view method is called on the outermost cursor.
Construct(viewCalls) ==
  /\ pc = "idle"
  /\ N < MaxChain
  /\ \E vs \in viewCalls :
       /\ LET b == NewIterates([chain |-> chain, action |-> action,
                                replaceWith |-> replaceWith, result |-> result,
                                data |-> data, visits |-> visits, values |-> values], vs)
          IN  /\ chain' = b.chain
              /\ action' = b.action
              /\ replaceWith' = b.replaceWith
              /\ result' = b.result
              /\ data' = b.data
              /\ visits' = b.visits
              /\ values' = b.values
  /\ UNCHANGED <<op, pc, mode, i, resolved, order, k, recorded, mindex, calls,
                 offered, requests, orig, initial, passes, runs, last>>
  /\ UNCHANGED notArrVars

\* A terminal operation or mutation calls each() on the outermost cursor:
\* every adapter down to the array (or to an Iterate.empty()) is entered.
Begin(ops) ==
  /\ pc \in {"idle", "done"}
  /\ runs < MaxRuns
  /\ Traversable
  /\ \E o \in ops :
       /\ op' = o
       /\ LET lo == EmptyAt
              c == each([CS EXCEPT !.offered = <<>>, !.requests = <<>>, !.calls = 0,
                                   !.resolved = <<>>, !.mindex = 0], lo, N)
          IN  /\ SetCS(c)
              /\ pc' = IF lo > 0 THEN "done" ELSE "array"
              /\ mode' = IF lo = 0 /\ ResolvedAt > 0 THEN "resolve" ELSE "direct"
              /\ passes' = IF lo > 0 THEN 0 ELSE 1
  /\ i' = 0
  /\ order' = <<>>
  /\ k' = 0
  /\ recorded' = <<>>
  /\ visits' = 0
  /\ orig' = values
  /\ runs' = runs + 1
  /\ last' = IF pc = "done" THEN Some(Outcome) ELSE Null
  /\ UNCHANGED <<values, chain, initial>>
  /\ UNCHANGED notArrVars

\* One iteration of the array adapter's loop.
ArrayStep ==
  /\ pc = "array"
  /\ i < Len(values)
  /\ \E any \in Inputs :
       LET c == Act(0, values[i + 1], i, CS, Top, any)
           n == ArrayLoop(values, i, c.action[1], c.replaceWith[1])
       IN  /\ SetCS(c)
           /\ values' = n.values
           /\ i' = n.i
           /\ pc' = IF n.returned THEN "returned" ELSE "array"
  /\ visits' = visits + 1
  /\ UNCHANGED <<chain, op, mode, order, k, recorded, orig, initial, passes, runs, last>>
  /\ UNCHANGED notArrVars

\* The array adapter returns: the pass over the array is over.
ArrayReturn ==
  /\ \/ pc = "returned"
     \/ pc = "array" /\ i >= Len(values)
  /\ IF mode = "resolve"
     THEN /\ order' = onResolve(chain[ResolvedAt], resolved)
          /\ mode' = "replay"
          /\ pc' = "replay"
     ELSE /\ pc' = "done"
          /\ UNCHANGED <<order, mode>>
  /\ UNCHANGED <<values, chain, action, replaceWith, result, data, op, i, resolved,
                 k, recorded, mindex, visits, calls, offered, requests, orig,
                 initial, passes, runs, last>>
  /\ UNCHANGED notArrVars

\* viewResolved: one element of the replay list is offered downstream.
ReplayStep ==
  /\ pc = "replay"
  /\ k < Len(order)
  /\ \E any \in Inputs :
       LET e == order[k + 1]
           r == ResolvedAt
           c == Act(r, e.value, e.key, CS, N, any)
           a == c.action[r + 1]
       IN  /\ SetCS(c)
           /\ recorded' =
                IF a \in {REMOVE, REPLACE}
                THEN (e.index :> [action |-> a, original |-> e.value,
                                  replaces |-> c.replaceWith[r + 1]]) @@ recorded
                ELSE recorded
           /\ pc' = IF a = STOP THEN "replayed" ELSE "replay"
  /\ k' = k + 1
  /\ UNCHANGED <<values, chain, op, mode, i, order, visits, orig, initial, passes,
                 runs, last>>
  /\ UNCHANGED notArrVars

\* viewResolved: the replay is over; if anything was recorded the parent is
\* traversed a second time to apply it.
ReplayReturn ==
  /\ \/ pc = "replayed"
     \/ pc = "replay" /\ k >= Len(order)
  /\ IF DOMAIN recorded # {}
     THEN /\ SetCS(each([CS EXCEPT !.mindex = 0], 0, ResolvedAt - 1))
          /\ mode' = "apply"
          /\ pc' = "array"
          /\ i' = 0
          /\ passes' = passes + 1
     ELSE /\ pc' = "done"
          /\ UNCHANGED <<action, replaceWith, result, data, offered, requests, calls,
                         resolved, mindex, mode, i, passes>>
  /\ UNCHANGED <<values, chain, op, order, k, recorded, visits, orig, initial, runs,
                 last>>
  /\ UNCHANGED notArrVars

(***************************************************************************)
(* Iterate.tree.                                                           *)
(***************************************************************************)
Nodes == 1..MaxNodes

\* The trees on the nodes 1..MaxNodes rooted at 1: every other node hangs
\* under a node of smaller number, children in increasing order.
ChildrenOf(parent) ==
  [n \in Nodes |->
     LET cs == {m \in Nodes : m > 1 /\ parent[m] = n}
         RECURSIVE Ordered(_)
         Ordered(set) ==
           IF set = {} THEN <<>>
           ELSE LET least == CHOOSE x \in set : \A y \in set : x <= y
                IN  <<least>> \o Ordered(set \ {least})
     IN  Ordered(cs)]

Trees ==
  {ChildrenOf(parent) :
     parent \in {f \in [Nodes -> Nodes] : f[1] = 1 /\ \A n \in Nodes \ {1} : f[n] < n}}

Frame(node) == [node |-> node, i |-> 0, action |-> CONTINUE]

Pop(st) == SubSeq(st, 1, Len(st) - 1)

Splice(s, idx) == SubSeq(s, 1, idx) \o SubSeq(s, idx + 2, Len(s))

\* The array adapter of the innermost child iterator, and what follows when
\* it returns.  LoopHead is the test of the for loop; Returned is the switch
\* on the action that act() returns once the callback, traverseDepthFirst
\* of a child, has returned (its boolean is not looked at).
RECURSIVE LoopHead(_, _), Returned(_, _)
LoopHead(st, ch) ==
  LET f == st[Len(st)]
  IN  IF f.i < Len(ch[f.node])
      THEN [stack |-> [st EXCEPT ![Len(st)].action = CONTINUE],
            children |-> ch, cur |-> ch[f.node][f.i + 1]]
      ELSE Returned(Pop(st), ch)

\* Variant: the loop index is not decremented after the splice.
ReturnedWithoutDecrement(st, ch) ==
  IF st = <<>> THEN [stack |-> st, children |-> ch, cur |-> 0]
  ELSE LET g == st[Len(st)]
       IN  CASE g.action = STOP -> Returned(Pop(st), ch)
             [] g.action = REMOVE ->
                  LoopHead([st EXCEPT ![Len(st)].i = @ + 1],
                           [ch EXCEPT ![g.node] = Splice(@, g.i)])
             [] OTHER -> LoopHead([st EXCEPT ![Len(st)].i = @ + 1], ch)

Returned(st, ch) ==
  IF st = <<>> THEN [stack |-> st, children |-> ch, cur |-> 0]
  ELSE LET g == st[Len(st)]
       IN  CASE g.action = STOP -> Returned(Pop(st), ch)
             [] g.action = REMOVE ->
                  LoopHead(st, [ch EXCEPT ![g.node] = Splice(@, g.i)])
             [] OTHER -> LoopHead([st EXCEPT ![Len(st)].i = @ + 1], ch)

\* handleAction on the action a the consumer requested for a node: what it
\* does to the parent's child iterator (the innermost frame, if any) and to
\* the node, whether it throws, and the boolean it returns.
handleAction(node, a, w, conf, throwOnRemove, st, val) ==
  CASE a = STOP ->
         [stack |-> IF st # <<>> THEN [st EXCEPT ![Len(st)].action = STOP] ELSE st,
          value |-> val, thrown |-> FALSE, go |-> FALSE]
    [] a = REPLACE ->
         [stack |-> st,
          value |-> IF conf.hasReplace THEN [val EXCEPT ![node] = w] ELSE val,
          thrown |-> ~conf.hasReplace /\ conf.strict, go |-> TRUE]
    [] a = REMOVE ->
         [stack |-> IF st # <<>> THEN [st EXCEPT ![Len(st)].action = REMOVE] ELSE st,
          value |-> val,
          thrown |-> st = <<>> /\ conf.strict /\ throwOnRemove, go |-> TRUE]
    [] OTHER -> [stack |-> st, value |-> val, thrown |-> FALSE, go |-> TRUE]

TreeConfs == [depthFirst : BOOLEAN, strict : BOOLEAN, hasReplace : BOOLEAN]

TreeRequests ==
  {Req(CONTINUE, Null, Null), Req(STOP, Null, Null), Req(REMOVE, Null, Null),
   Req(REPLACE, Some(0), Null)}

TreeInit ==
  /\ tchildren \in Trees
  /\ tvalue = [n \in Nodes |-> n]
  /\ tconf \in TreeConfs
  /\ tstack = <<>>
  /\ tqueue = <<>>
  /\ tcur = 0
  /\ tpc = "idle"
  /\ taction = Undefined
  /\ toffered = <<>>
  /\ trequests = <<>>
  /\ tchildren0 = tchildren
  /\ tfirst = Null

TreeIdle ==
  /\ tchildren = <<>>
  /\ tvalue = <<>>
  /\ tconf = [depthFirst |-> TRUE, strict |-> TRUE, hasReplace |-> FALSE]
  /\ tstack = <<>>
  /\ tqueue = <<>>
  /\ tcur = 0
  /\ tpc = "idle"
  /\ taction = Undefined
  /\ toffered = <<>>
  /\ trequests = <<>>
  /\ tchildren0 = <<>>
  /\ tfirst = Null

\* each(callback) on the tree cursor: the adapter is entered at the
\* starting node.  A second call, after the first returned, starts over on
\* the tree as the first left it.
TreeBegin ==
  /\ tpc = "idle" \/ (tpc = "done" /\ tfirst = Null)
  /\ tpc' = "visit"
  /\ taction' = CONTINUE
  /\ IF tconf.depthFirst
     THEN tcur' = 1 /\ tqueue' = <<>>
     ELSE tcur' = 0 /\ tqueue' = <<1>>
  /\ tstack' = <<>>
  /\ toffered' = <<>>
  /\ trequests' = <<>>
  /\ tfirst' = IF tpc = "done"
               THEN Some([offered |-> toffered, requests |-> trequests])
               ELSE tfirst
  /\ UNCHANGED <<tchildren, tvalue, tconf, tchildren0>>
  /\ UNCHANGED notTreeVars

\* traverseDepthFirst of the node tcur: handleAction, then the loop over its
\* children up to the next call of traverseDepthFirst.
DepthFirstVisit ==
  /\ tpc = "visit"
  /\ tconf.depthFirst
  /\ tcur # 0
  /\ \E r \in TreeRequests :
       LET h == handleAction(tcur, r.act, IF r.with = Null THEN 0 ELSE r.with[1],
                             tconf, FALSE, tstack, tvalue)
           n == IF h.go THEN LoopHead(Append(h.stack, Frame(tcur)), tchildren)
                ELSE Returned(h.stack, tchildren)
       IN  /\ taction' = r.act
           /\ toffered' = Append(toffered, tcur)
           /\ trequests' = Append(trequests, r.act)
           /\ tvalue' = h.value
           /\ IF h.thrown
              THEN /\ tpc' = "error"
                   /\ tstack' = h.stack
                   /\ UNCHANGED <<tchildren, tcur>>
              ELSE /\ tstack' = n.stack
                   /\ tchildren' = n.children
                   /\ tcur' = n.cur
                   /\ tpc' = IF n.cur = 0 THEN "done" ELSE "visit"
  /\ UNCHANGED <<tconf, tqueue, tchildren0, tfirst>>
  /\ UNCHANGED notTreeVars

\* Variant: the children go to the front of the queue.
EnqueueFirst(queue, children) == children \o queue

\* getChildIterate(next).array(queue): the children are pushed at the end.
Enqueue(queue, children) == queue \o children

\* One iteration of the while loop of traverseBreadthFirst.
BreadthFirstVisit ==
  /\ tpc = "visit"
  /\ ~tconf.depthFirst
  /\ tqueue # <<>>
  /\ \E r \in TreeRequests :
       LET next == Head(tqueue)
           h == handleAction(next, r.act, IF r.with = Null THEN 0 ELSE r.with[1],
                             tconf, TRUE, <<>>, tvalue)
           q == Enqueue(Tail(tqueue), tchildren[next])
       IN  /\ taction' = r.act
           /\ toffered' = Append(toffered, next)
           /\ trequests' = Append(trequests, r.act)
           /\ tvalue' = h.value
           /\ IF h.thrown
              THEN tpc' = "error" /\ tqueue' = Tail(tqueue)
              ELSE IF ~h.go
                   THEN tpc' = "done" /\ tqueue' = Tail(tqueue)
                   ELSE tqueue' = q /\ tpc' = IF q = <<>> THEN "done" ELSE "visit"
  /\ UNCHANGED <<tchildren, tconf, tstack, tcur, tchildren0, tfirst>>
  /\ UNCHANGED notTreeVars

NextTree == TreeBegin \/ DepthFirstVisit \/ BreadthFirstVisit

(***************************************************************************)
(* Iterate.linked.                                                         *)
(***************************************************************************)
ListNodes == 1..(MaxList + 1)

\* previousNode -> 2 -> ... -> n + 1, ending in null or, for a circular
\* list, back at previousNode.
Links(n, circular) ==
  [x \in ListNodes |->
     IF x <= n THEN x + 1 ELSE IF x = n + 1 /\ circular THEN 1 ELSE 0]

Lists == {Links(n, circular) : n \in 0..MaxList, circular \in BOOLEAN}

LinkedConfs == [strict : BOOLEAN, hasRemove : BOOLEAN, hasReplace : BOOLEAN]

\* Variant: a request that cannot be done is never an error.
linkedLoopLenient(conf, nxt, val, prev, curr, a, w) ==
  LET next == nxt[curr]
      removed == a = REMOVE /\ conf.hasRemove
  IN  [next |-> IF removed THEN [nxt EXCEPT ![prev] = nxt[curr]] ELSE nxt,
       value |-> IF a = REPLACE /\ conf.hasReplace THEN [val EXCEPT ![curr] = w] ELSE val,
       prev |-> IF removed \/ a = STOP THEN prev ELSE curr,
       curr |-> IF a = STOP THEN curr ELSE next,
       returned |-> a = STOP,
       thrown |-> FALSE]

\* Variant: prev advances to the current node even when it was removed.
linkedLoopAdvancesPrev(conf, nxt, val, prev, curr, a, w) ==
  LET next == nxt[curr]
      removed == a = REMOVE /\ conf.hasRemove
      missing == \/ a = REMOVE /\ ~conf.hasRemove
                 \/ a = REPLACE /\ ~conf.hasReplace
  IN  [next |-> IF removed THEN [nxt EXCEPT ![prev] = nxt[curr]] ELSE nxt,
       value |-> IF a = REPLACE /\ conf.hasReplace THEN [val EXCEPT ![curr] = w] ELSE val,
       prev |-> IF a = STOP \/ (missing /\ conf.strict) THEN prev ELSE curr,
       curr |-> IF a = STOP \/ (missing /\ conf.strict) THEN curr ELSE next,
       returned |-> a = STOP,
       thrown |-> missing /\ conf.strict]

\* One iteration of the while loop of linkedIterator on the action a (and
\* replacement w) that iterator.act returned.  The hooks are the tests':
\* remove is prev.next = node.next, replaceValue is node.value = value.
linkedLoop(conf, nxt, val, prev, curr, a, w) ==
  LET next == nxt[curr]
      removed == a = REMOVE /\ conf.hasRemove
      missing == \/ a = REMOVE /\ ~conf.hasRemove
                 \/ a = REPLACE /\ ~conf.hasReplace
  IN  [next |-> IF removed THEN [nxt EXCEPT ![prev] = nxt[curr]] ELSE nxt,
       value |-> IF a = REPLACE /\ conf.hasReplace THEN [val EXCEPT ![curr] = w] ELSE val,
       prev |-> IF removed \/ a = STOP \/ (missing /\ conf.strict) THEN prev ELSE curr,
       curr |-> IF a = STOP \/ (missing /\ conf.strict) THEN curr ELSE next,
       returned |-> a = STOP,
       thrown |-> missing /\ conf.strict]

LinkInit ==
  /\ lnext \in Lists
  /\ lvalue = [x \in ListNodes |-> x]
  /\ lconf \in LinkedConfs
  /\ lprev = 0
  /\ lcurr = 0
  /\ lpc = "idle"
  /\ laction = Undefined
  /\ lcallback = FALSE
  /\ loffered = <<>>
  /\ lrequests = <<>>
  /\ lnext0 = lnext

LinkIdle ==
  /\ lnext = <<>>
  /\ lvalue = <<>>
  /\ lconf = [strict |-> TRUE, hasRemove |-> FALSE, hasReplace |-> FALSE]
  /\ lprev = 0
  /\ lcurr = 0
  /\ lpc = "idle"
  /\ laction = Undefined
  /\ lcallback = FALSE
  /\ loffered = <<>>
  /\ lrequests = <<>>
  /\ lnext0 = <<>>

\* each(callback) on the list cursor: the callback is set and the adapter
\* is entered.
LinkedBegin ==
  /\ lpc = "idle"
  /\ lpc' = "loop"
  /\ laction' = CONTINUE
  /\ lcallback' = TRUE
  /\ lprev' = 1
  /\ lcurr' = lnext[1]
  /\ lnext0' = lnext
  /\ UNCHANGED <<lnext, lvalue, lconf, loffered, lrequests>>
  /\ UNCHANGED notLinkVars

\* One iteration of the while loop.  On STOP the source function returns
\* and each clears the callback; a throw leaves each before it does.
LinkedStep ==
  /\ lpc = "loop"
  /\ lcurr # 0 /\ lcurr # 1
  /\ \E r \in TreeRequests :
       LET n == linkedLoop(lconf, lnext, lvalue, lprev, lcurr, r.act,
                           IF r.with = Null THEN 0 ELSE r.with[1])
       IN  /\ laction' = r.act
           /\ loffered' = Append(loffered, lcurr)
           /\ lrequests' = Append(lrequests, r.act)
           /\ lnext' = n.next
           /\ lvalue' = n.value
           /\ lprev' = n.prev
           /\ lcurr' = n.curr
           /\ lpc' = IF n.thrown THEN "error" ELSE IF n.returned THEN "done" ELSE "loop"
           /\ lcallback' = IF n.returned /\ ~n.thrown THEN FALSE ELSE lcallback
  /\ UNCHANGED <<lconf, lnext0>>
  /\ UNCHANGED notLinkVars

\* The while loop ends: curr is null or previousNode again; each clears
\* the callback.
LinkedReturn ==
  /\ lpc = "loop"
  /\ lcurr = 0 \/ lcurr = 1
  /\ lpc' = "done"
  /\ lcallback' = FALSE
  /\ UNCHANGED <<lnext, lvalue, lconf, lprev, lcurr, laction, loffered, lrequests,
                 lnext0>>
  /\ UNCHANGED notLinkVars

NextLinked == LinkedBegin \/ LinkedStep \/ LinkedReturn

(***************************************************************************)
(* Iterate.join, append and prepend.                                       *)
(***************************************************************************)
\* The cursor itself, where a view of it could stand.
self == View("self", 0)

JoinViews ==
  {self} \cup {skip(a) : a \in 0..MaxAmount} \cup {take(a) : a \in 0..MaxAmount}

JoinArrays == {[x \in 1..n |-> x] : n \in 0..MaxLen}

JoinConfs ==
  [kind : {"append", "prepend"},
   a : [arr : {1}, view : JoinViews],
   b : [arr : {1, 2}, view : JoinViews]]

\* Variant: prepend passes its arguments to join in the order of append.
JoinSourcesInOneOrder(conf) == <<conf.a, conf.b>>

\* The arguments of Iterate.join: append is join(this, ...sources), prepend
\* is join(...sources, this).
JoinSources(conf) ==
  IF conf.kind = "append" THEN <<conf.a, conf.b>> ELSE <<conf.b, conf.a>>

\* The callback join installs on a child: the consumer's request r is
\* re-issued on the child cursor j.
joinCallback(c, j, r) ==
  CASE r.act = REMOVE -> remove(c, j)
    [] r.act = STOP -> stop(c, j, Null)
    [] r.act = REPLACE -> replace(c, j, r.with[1])
    [] OTHER -> c

\* Variant: join goes on to the next child whatever the child's action.
joinGoesOnAlways(childAction) == TRUE

\* The test after child.each(...): join returns when the child stopped.
joinGoesOn(childAction) == childAction # STOP

\* One iteration of the array adapter under a child with view v (or the
\* child itself), data d and action a, for the consumer's request r.
joinElement(v, d, a, vals, idx, r) ==
  LET value == vals[idx + 1]
      key == idx
      c0 == [action |-> <<CONTINUE, a>>, replaceWith |-> <<Null, Null>>,
             result |-> <<Null, Null>>, data |-> <<d>>]
      acts == v = self \/ shouldAct(v, d, value, key)
      c1 == IF v = self THEN joinCallback(c0, 0, r)
            ELSE IF acts
            THEN afterAct(v,
                   Forward(joinCallback([c0 EXCEPT !.action[2] = CONTINUE], 1, r), 1, 0),
                   1, value, key)
            ELSE afterSkip(v, c0, 1)
      n == ArrayLoop(vals, idx, c1.action[1], c1.replaceWith[1])
  IN  [values |-> n.values, i |-> n.i, returned |-> n.returned,
       data |-> c1.data[1],
       action |-> IF v = self THEN c1.action[1] ELSE c1.action[2],
       offered |-> IF acts THEN <<<<key, value>>>> ELSE <<>>]

JoinInit ==
  /\ jconf \in JoinConfs
  /\ jarr \in [1..2 -> JoinArrays]
  /\ jconf.b.arr = 1 => jarr[2] = <<>>
  /\ jchild = 0
  /\ ji = 0
  /\ jdata = NoData
  /\ jaction = Undefined
  /\ jreturned = FALSE
  /\ jpc = "idle"
  /\ joffered = <<>>
  /\ jrequests = <<>>
  /\ jarr0 = jarr

JoinIdle ==
  /\ jconf = [kind |-> "append", a |-> [arr |-> 1, view |-> self],
              b |-> [arr |-> 1, view |-> self]]
  /\ jarr = <<>>
  /\ jchild = 0
  /\ ji = 0
  /\ jdata = NoData
  /\ jaction = Undefined
  /\ jreturned = FALSE
  /\ jpc = "idle"
  /\ joffered = <<>>
  /\ jrequests = <<>>
  /\ jarr0 = <<>>

\* each(callback) on the joined cursor: join's closure calls each on the
\* first child.
JoinBegin ==
  /\ jpc = "idle"
  /\ jpc' = "loop"
  /\ jchild' = 1
  /\ ji' = 0
  /\ jdata' = getData(JoinSources(jconf)[1].view)
  /\ jaction' = CONTINUE
  /\ jreturned' = FALSE
  /\ jarr0' = jarr
  /\ UNCHANGED <<jarr, jconf, joffered, jrequests>>
  /\ UNCHANGED notJoinVars

\* One iteration of the array adapter under the current child.
JoinStep ==
  /\ jpc = "loop"
  /\ ~jreturned
  /\ LET child == JoinSources(jconf)[jchild]
     IN  /\ child.view # empty
         /\ ji < Len(jarr[child.arr])
         /\ \E r \in AnyRequests :
              LET n == joinElement(child.view, jdata, jaction, jarr[child.arr], ji, r)
              IN  /\ jarr' = [jarr EXCEPT ![child.arr] = n.values]
                  /\ ji' = n.i
                  /\ jreturned' = n.returned
                  /\ jdata' = n.data
                  /\ jaction' = n.action
                  /\ joffered' = joffered \o
                       [x \in 1..Len(n.offered) |-> <<jchild>> \o n.offered[x]]
                  /\ jrequests' = IF n.offered = <<>> THEN jrequests
                                  ELSE Append(jrequests, r.act)
  /\ UNCHANGED <<jconf, jchild, jpc, jarr0>>
  /\ UNCHANGED notJoinVars

\* The child's each() has returned: join returns or goes on to the next
\* child.
JoinReturn ==
  /\ jpc = "loop"
  /\ LET sources == JoinSources(jconf)
         child == sources[jchild]
     IN  /\ jreturned \/ child.view = empty \/ ji >= Len(jarr[child.arr])
         /\ IF joinGoesOn(jaction) /\ jchild < Len(sources)
            THEN /\ jchild' = jchild + 1
                 /\ ji' = 0
                 /\ jdata' = getData(sources[jchild + 1].view)
                 /\ jaction' = CONTINUE
                 /\ jreturned' = FALSE
                 /\ jpc' = "loop"
            ELSE /\ jpc' = "done"
                 /\ UNCHANGED <<jchild, ji, jdata, jaction, jreturned>>
  /\ UNCHANGED <<jarr, jconf, joffered, jrequests, jarr0>>
  /\ UNCHANGED notJoinVars

NextJoin == JoinBegin \/ JoinStep \/ JoinReturn

(***************************************************************************)
(* exclude and intersect.                                                  *)
(***************************************************************************)
SmallValues == 0..MaxSmallVal
SmallArrays == UNION {[1..n -> SmallValues] : n \in 0..MaxSmallLen}

\* Variant: the scan for an equal value leaves out the last element.
containsButLast(vals, value, e) ==
  \E x \in 1..(Len(vals) - 1) : Equals(e, vals[x], value)

\* contains(value): where((other, otherKey) => equality(other, value,
\* otherKey)).has(), true when the scan of the values stops at an element.
contains(vals, value, e) ==
  \E x \in 1..Len(vals) : Equals(e, vals[x], value)

\* shouldAct of exclude and intersect; the data is the other source with
\* the equality of this cursor.
setShouldAct(kind, other, value, e) ==
  IF kind = "exclude" THEN ~contains(other, value, e) ELSE contains(other, value, e)

SetKinds == {"exclude", "intersect"}

SetInit ==
  /\ ea \in SmallArrays
  /\ eb \in SmallArrays
  /\ eeq \in {Null} \cup {Some(e) : e \in Equalities}
  /\ ekind = "none"
  /\ ei = 0
  /\ epc = "idle"
  /\ eoffered = <<>>
  /\ eresults = [kind \in SetKinds |-> Null]

SetIdle ==
  /\ ea = <<>>
  /\ eb = <<>>
  /\ eeq = Null
  /\ ekind = "none"
  /\ ei = 0
  /\ epc = "idle"
  /\ eoffered = <<>>
  /\ eresults = <<>>

\* a.exclude(b, equality).array() or a.intersect(b, equality).array():
\* each() enters the view's closure, which calls getData.
SetBegin ==
  /\ epc \in {"idle", "done"}
  /\ \E kind \in SetKinds :
       /\ eresults[kind] = Null
       /\ ekind' = kind
  /\ ei' = 0
  /\ epc' = "loop"
  /\ eoffered' = <<>>
  /\ UNCHANGED <<ea, eb, eeq, eresults>>
  /\ UNCHANGED notSetVars

\* One iteration of the array adapter of a: the view forwards the element
\* or not; array()'s callback lets it pass.
SetStep ==
  /\ epc = "loop"
  /\ ei < Len(ea)
  /\ LET value == ea[ei + 1]
         acts == setShouldAct(ekind, eb, value, getEquality(eeq, Null))
         n == ArrayLoop(ea, ei, CONTINUE, Null)
     IN  /\ eoffered' = IF acts THEN Append(eoffered, <<ei, value>>) ELSE eoffered
         /\ ei' = n.i
         /\ ea' = n.values
  /\ UNCHANGED <<eb, eeq, ekind, epc, eresults>>
  /\ UNCHANGED notSetVars

\* The array adapter returns and array() returns what it collected.
SetReturn ==
  /\ epc = "loop"
  /\ ei >= Len(ea)
  /\ epc' = "done"
  /\ eresults' = [eresults EXCEPT ![ekind] = Some(eoffered)]
  /\ UNCHANGED <<ea, eb, eeq, ekind, ei, eoffered>>
  /\ UNCHANGED notSetVars

NextSet == SetBegin \/ SetStep \/ SetReturn

(***************************************************************************)
(* Comparison logic: withComparator, numbers, desc, withEquality, and the  *)
(* views and operations that resolve it.                                   *)
(***************************************************************************)
\* The comparator desc() leaves on a cursor that had none: its call throws.
Uncallable == 0 - 1

\* defaultCompare is imported from ./functions and is not part of the
\* source at hand: a call of it may order its arguments either way, or throw.
DefaultCompare ==
  {[cmp |-> c, from |-> "default", throws |-> t] : c \in Comparators, t \in BOOLEAN}

\* getComparator(comparatorOverride) of a cursor whose comparator field is
\* own: what compare may be, and where it came from.
getComparator(override, own) ==
  IF override # Null THEN {[cmp |-> override[1], from |-> "inline", throws |-> FALSE]}
  ELSE IF own # Null
    THEN {[cmp |-> own[1], from |-> "own", throws |-> own[1] = Uncallable]}
  ELSE DefaultCompare

\* The views that resolve a comparator or an equality, with their arguments.
CmpViews ==
  {[kind |-> kd, arg |-> a, inline |-> inl] :
     kd \in {"gt", "lt"}, a \in SmallValues,
     inl \in {Null} \cup {Some(c) : c \in Comparators}}
    \cup {[kind |-> "sorted", arg |-> 0, inline |-> inl] :
            inl \in {Null} \cup {Some(c) : c \in Comparators}}
    \cup {[kind |-> "unique", arg |-> 0, inline |-> inl] :
            inl \in {Null} \cup {Some(e) : e \in Equalities}}

\* The values of arr at the positions in keep, in order.
RECURSIVE Pick(_, _, _)
Pick(arr, keep, x) ==
  IF x > Len(arr) THEN <<>>
  ELSE (IF x \in keep THEN <<arr[x]>> ELSE <<>>) \o Pick(arr, keep, x + 1)

\* unique: the values with no equal value in existing, each pushed to it.
RECURSIVE uniqueFrom(_, _, _, _)
uniqueFrom(arr, e, x, existing) ==
  IF x > Len(arr) THEN existing
  ELSE uniqueFrom(arr, e, x + 1,
         IF \E y \in 1..Len(existing) : Equals(e, existing[y], arr[x])
         THEN existing ELSE Append(existing, arr[x]))

\* min / max: reduce(null, (value, min) => min === null || compare(value,
\* min) < 0 ? value : min), and the same with > 0.
RECURSIVE reduceFrom(_, _, _, _, _)
reduceFrom(arr, cmp, sign, x, acc) ==
  IF x > Len(arr) THEN acc
  ELSE reduceFrom(arr, cmp, sign, x + 1,
         IF acc = Null \/ sign * Compare(cmp, arr[x], acc[1]) > 0
         THEN Some(arr[x]) ELSE acc)

\* array() of the view kind over arr with the logic resolved to f.
viewArray(kind, arg, arr, f) ==
  CASE kind = "sorted" ->
         LET m == Sorted(f, [x \in 1..Len(arr) |-> <<x - 1, arr[x]>>])
         IN  [x \in 1..Len(m) |-> m[x].value]
    [] kind = "gt" -> Pick(arr, {x \in 1..Len(arr) : Compare(f, arr[x], arg) > 0}, 1)
    [] kind = "lt" -> Pick(arr, {x \in 1..Len(arr) : Compare(f, arr[x], arg) < 0}, 1)
    [] OTHER -> uniqueFrom(arr, f, 1, <<>>)

\* Whether the operation calls compare at all over arr.
Compares(kind, arr) ==
  IF kind \in {"gt", "lt"} THEN Len(arr) >= 1 ELSE Len(arr) >= 2

CmpInit ==
  /\ carr \in SmallArrays
  /\ ccmp = Null
  /\ ceq = Null
  /\ cview = Null
  /\ cop = "none"
  /\ cpc = "idle"
  /\ cresult = Null
  /\ cfrom = "none"
  /\ cbare = FALSE

CmpIdle ==
  /\ carr = <<>>
  /\ ccmp = Null
  /\ ceq = Null
  /\ cview = Null
  /\ cop = "none"
  /\ cpc = "idle"
  /\ cresult = Null
  /\ cfrom = "none"
  /\ cbare = FALSE

\* parent.withComparator(comparator): the equality is derived from the
\* comparator when the parent has none.
withComparator ==
  /\ \E c \in Comparators :
       /\ ccmp' = Some(c)
       /\ ceq' = IF ceq = Null THEN Some(2 + c) ELSE ceq
  /\ cbare' = FALSE
  /\ UNCHANGED <<carr, cview, cop, cpc, cresult, cfrom>>
  /\ UNCHANGED notCmpVars

\* parent.numbers(ascending): withLogic sets both.
numbers ==
  /\ \E c \in Comparators :
       /\ ccmp' = Some(c)
       /\ ceq' = Some(2 + c)
  /\ cbare' = FALSE
  /\ UNCHANGED <<carr, cview, cop, cpc, cresult, cfrom>>
  /\ UNCHANGED notCmpVars

\* parent.desc(comparator): compare is the comparator given or else the
\* parent's, and the parent's comparator becomes a function that calls
\* compare with its arguments swapped.  With neither, compare is undefined
\* and the new comparator is a function whose call throws.
desc ==
  /\ \E given \in {Null} \cup {Some(c) : c \in Comparators} :
       LET compare == IF given # Null THEN given ELSE ccmp
       IN  /\ ccmp' = IF compare = Null \/ compare = Some(Uncallable)
                        THEN Some(Uncallable)
                        ELSE Some(1 - compare[1])
           /\ cbare' = IF given # Null THEN FALSE
                        ELSE IF ccmp = Null THEN TRUE ELSE cbare
  /\ UNCHANGED <<carr, ceq, cview, cop, cpc, cresult, cfrom>>
  /\ UNCHANGED notCmpVars

\* parent.withEquality(equality).
withEquality ==
  /\ \E e \in Equalities : ceq' = Some(e)
  /\ UNCHANGED <<carr, ccmp, cview, cop, cpc, cresult, cfrom, cbare>>
  /\ UNCHANGED notCmpVars

\* parent.sorted(..), gt(..), lt(..) or unique(..): new Iterate(source,
\* parent) copies the parent's equality and comparator into the view.
CmpConstruct ==
  /\ cview = Null
  /\ \E v \in CmpViews :
       cview' = [kind |-> v.kind, arg |-> v.arg, inline |-> v.inline,
                 equality |-> ceq, comparator |-> ccmp]
  /\ UNCHANGED <<carr, ccmp, ceq, cop, cpc, cresult, cfrom, cbare>>
  /\ UNCHANGED notCmpVars

\* view.array(): the view's closure resolves the logic with
\* this.getComparator / this.getEquality, this being the parent.
CmpTraverse ==
  /\ cview # Null
  /\ cop' = "view"
  /\ IF cview.kind = "unique"
     THEN /\ cresult' = viewArray("unique", 0, carr, getEquality(cview.inline, ceq))
          /\ cpc' = "done"
          /\ cfrom' = "none"
     ELSE \E g \in getComparator(cview.inline, ccmp) :
            /\ cfrom' = g.from
            /\ IF g.throws
               THEN /\ Compares(cview.kind, carr)
                    /\ cpc' = "error"
                    /\ cresult' = Null
               ELSE /\ cpc' = "done"
                    /\ cresult' = viewArray(cview.kind, cview.arg, carr, g.cmp)
  /\ UNCHANGED <<carr, ccmp, ceq, cview, cbare>>
  /\ UNCHANGED notCmpVars

\* parent.min() or parent.max().
CmpReduce ==
  /\ \E name \in {"min", "max"}, g \in getComparator(Null, ccmp) :
       /\ cop' = name
       /\ cfrom' = g.from
       /\ IF g.throws
          THEN /\ Compares(name, carr)
               /\ cpc' = "error"
               /\ cresult' = Null
          ELSE /\ cpc' = "done"
               /\ cresult' = reduceFrom(carr, g.cmp, IF name = "min" THEN -1 ELSE 1, 1, Null)
  /\ UNCHANGED <<carr, ccmp, ceq, cview, cbare>>
  /\ UNCHANGED notCmpVars

NextCmp ==
  \/ withComparator
  \/ numbers
  \/ desc
  \/ withEquality
  \/ CmpConstruct
  \/ CmpTraverse
  \/ CmpReduce

(***************************************************************************)
(* Iterate.zip.                                                            *)
(***************************************************************************)
\* The filters given to where() on a zip cursor: 0 holds for even keys, the
\* others are the filters on values.
zipFilter(p, value, key) == IF p = 0 THEN key % 2 = 0 ELSE Filter(p, value, key)

\* The operations run on the zip cursor: entries(), first(),
\* overwrite(Replacement) and where(p).delete().
ZipOps ==
  {Op("entries", 0), Op("first", 0), Op("overwrite", Replacement)}
    \cup {Op("delete", p) : p \in Filters}

\* What next.act(value, key) returns under the operation.
zipAct(o, value, key) ==
  CASE o.name = "first" -> STOP
    [] o.name = "overwrite" -> REPLACE
    [] o.name = "delete" -> IF zipFilter(o.arg, value, key) THEN REMOVE ELSE CONTINUE
    [] OTHER -> CONTINUE

\* Variant: a removed value leaves its key in place.
zipCallbackKeepsKeys(a, index, keysArray, removeKeyAt) ==
  CASE index >= Len(keysArray) ->
         [prev |-> STOP, removeKeyAt |-> removeKeyAt, index |-> index + 1]
    [] a = STOP ->
         [prev |-> CONTINUE, removeKeyAt |-> removeKeyAt, index |-> index]
    [] OTHER ->
         [prev |-> a, removeKeyAt |-> removeKeyAt, index |-> index + 1]

\* The callback zip gives to valueIterator.each, a being what next.act
\* returned: the action left on the values cursor, removeKeyAt and
\* valuesIndex.  On STOP the callback returns at once.
zipCallback(a, index, keysArray, removeKeyAt) ==
  CASE index >= Len(keysArray) ->
         [prev |-> STOP, removeKeyAt |-> removeKeyAt, index |-> index + 1]
    [] a = STOP ->
         [prev |-> CONTINUE, removeKeyAt |-> removeKeyAt, index |-> index]
    [] a = REMOVE ->
         [prev |-> REMOVE, removeKeyAt |-> Append(removeKeyAt, index), index |-> index + 1]
    [] OTHER ->
         [prev |-> a, removeKeyAt |-> removeKeyAt, index |-> index + 1]

\* The callback zip gives to keyIterator.each.
zipKeyCallback(index, removeKeyAt) ==
  IF removeKeyAt # <<>> /\ index = removeKeyAt[1]
  THEN [prev |-> REMOVE, removeKeyAt |-> Tail(removeKeyAt), index |-> index + 1]
  ELSE IF removeKeyAt = <<>>
  THEN [prev |-> STOP, removeKeyAt |-> removeKeyAt, index |-> index + 1]
  ELSE [prev |-> CONTINUE, removeKeyAt |-> removeKeyAt, index |-> index + 1]

ZipInit ==
  /\ zk \in Arrays
  /\ zv \in Arrays
  /\ zop = NoOp
  /\ zpc = "idle"
  /\ zkeysArray = <<>>
  /\ zremoveKeyAt = <<>>
  /\ zindex = 0
  /\ zi = 0
  /\ zreturned = FALSE
  /\ zoffered = <<>>
  /\ zstarted = [keys |-> zk, values |-> zv]
  /\ zruns = 0

ZipIdle ==
  /\ zk = <<>>
  /\ zv = <<>>
  /\ zop = NoOp
  /\ zpc = "idle"
  /\ zkeysArray = <<>>
  /\ zremoveKeyAt = <<>>
  /\ zindex = 0
  /\ zi = 0
  /\ zreturned = FALSE
  /\ zoffered = <<>>
  /\ zstarted = <<>>
  /\ zruns = 0

\* An operation on the zip cursor enters zip's source function: the keys
\* are copied, then valueIterator.each begins.
ZipBegin ==
  /\ zpc \in {"idle", "done"}
  /\ zruns < MaxRuns
  /\ zop' \in ZipOps
  /\ zpc' = "values"
  /\ zkeysArray' = zk
  /\ zremoveKeyAt' = <<>>
  /\ zindex' = 0
  /\ zi' = 0
  /\ zreturned' = FALSE
  /\ zoffered' = <<>>
  /\ zstarted' = [keys |-> zk, values |-> zv]
  /\ zruns' = zruns + 1
  /\ UNCHANGED <<zk, zv>>
  /\ UNCHANGED notZipVars

\* One iteration of the array adapter of the values.
ZipValueStep ==
  /\ zpc = "values"
  /\ ~zreturned
  /\ zi < Len(zv)
  /\ LET value == zv[zi + 1]
         acts == zindex < Len(zkeysArray)
         a == IF acts THEN zipAct(zop, value, zkeysArray[zindex + 1]) ELSE CONTINUE
         c == zipCallback(a, zindex, zkeysArray, zremoveKeyAt)
         n == ArrayLoop(zv, zi, c.prev, Some(zop.arg))
     IN  /\ zoffered' = IF acts THEN Append(zoffered, <<zkeysArray[zindex + 1], value>>)
                        ELSE zoffered
         /\ zremoveKeyAt' = c.removeKeyAt
         /\ zindex' = c.index
         /\ zv' = n.values
         /\ zi' = n.i
         /\ zreturned' = n.returned
  /\ UNCHANGED <<zk, zop, zpc, zkeysArray, zstarted, zruns>>
  /\ UNCHANGED notZipVars

\* valueIterator.each has returned: the keys pass begins if a value was
\* removed, else the traversal is over.
ZipValuesReturn ==
  /\ zpc = "values"
  /\ zreturned \/ zi >= Len(zv)
  /\ zpc' = IF Len(zremoveKeyAt) > 0 THEN "keys" ELSE "done"
  /\ zindex' = 0
  /\ zi' = 0
  /\ zreturned' = FALSE
  /\ UNCHANGED <<zk, zv, zop, zkeysArray, zremoveKeyAt, zoffered, zstarted, zruns>>
  /\ UNCHANGED notZipVars

\* One iteration of the array adapter of the keys.
ZipKeyStep ==
  /\ zpc = "keys"
  /\ ~zreturned
  /\ zi < Len(zk)
  /\ LET c == zipKeyCallback(zindex, zremoveKeyAt)
         n == ArrayLoop(zk, zi, c.prev, Null)
     IN  /\ zremoveKeyAt' = c.removeKeyAt
         /\ zindex' = c.index
         /\ zk' = n.values
         /\ zi' = n.i
         /\ zreturned' = n.returned
  /\ UNCHANGED <<zv, zop, zpc, zkeysArray, zoffered, zstarted, zruns>>
  /\ UNCHANGED notZipVars

\* keyIterator.each has returned.
ZipKeysReturn ==
  /\ zpc = "keys"
  /\ zreturned \/ zi >= Len(zk)
  /\ zpc' = "done"
  /\ UNCHANGED <<zk, zv, zop, zkeysArray, zremoveKeyAt, zindex, zi, zreturned,
                 zoffered, zstarted, zruns>>
  /\ UNCHANGED notZipVars

NextZip ==
  \/ ZipBegin
  \/ ZipValueStep
  \/ ZipValuesReturn
  \/ ZipKeyStep
  \/ ZipKeysReturn

(***************************************************************************)
(* clone(), and each() of a cursor and of its clone.                       *)
(***************************************************************************)
\* A cursor's fields before any traversal.
NewCursor == [callback |-> "null", action |-> CONTINUE, result |-> Undefined]

\* each(callback) up to the call of the source function.
eachEnter(cur, id, callback) ==
  [cur EXCEPT ![id] = [callback |-> callback, action |-> CONTINUE, result |-> Undefined]]

\* each(callback) after the source function returned.
eachLeave(cur, id) == [cur EXCEPT ![id].callback = "null"]

\* The cursor the caller traverses, and the cursor its source function
\* runs each() on: the where view calls each() of the array cursor.
Subject(filter) == IF filter = Null THEN "root" ELSE "view"

\* c.clone().each(inner) to its end, inner requesting nothing: the clone
\* is a new cursor with the source function of c.  The source function of
\* a view runs each() on the view's parent, whichever cursor it is called
\* with.
nestedEach(cur, filter, vals) ==
  LET cl == eachLeave(eachEnter(cur, "clone", "inner"), "clone")
  IN  IF filter = Null THEN cl
      ELSE eachLeave(eachEnter(cl, "root", "cloneview"), "root")

\* The invocations of inner in one such traversal.
nestedCalls(filter, vals) ==
  Cardinality({x \in 1..Len(vals) : filter = Null \/ Filter(filter[1], vals[x], x - 1)})

NestInit ==
  /\ nvalues \in Arrays
  /\ nfilter \in {Null} \cup {Some(p) : p \in Filters}
  /\ ncur = [id \in {"root", "view", "clone"} |-> NewCursor]
  /\ ni = 0
  /\ npc = "idle"
  /\ ncalls = <<>>
  /\ nrequests = <<>>
  /\ ninner = 0

NestIdle ==
  /\ nvalues = <<>>
  /\ nfilter = Null
  /\ ncur = <<>>
  /\ ni = 0
  /\ npc = "idle"
  /\ ncalls = <<>>
  /\ nrequests = <<>>
  /\ ninner = 0

\* c.each(outer): each() of c, and for a view each() of its parent.
NestBegin ==
  /\ npc = "idle"
  /\ ncur' = IF nfilter = Null THEN eachEnter(ncur, "root", "outer")
             ELSE eachEnter(eachEnter(ncur, "view", "outer"), "root", "view")
  /\ npc' = "loop"
  /\ UNCHANGED <<nvalues, nfilter, ni, ncalls, nrequests, ninner>>
  /\ UNCHANGED notNestVars

\* One iteration of the array adapter of the outer traversal: act of the
\* array cursor calls its callback, which fails when there is none; the
\* outer callback may run a traversal of c.clone() and may stop.
NestStep ==
  /\ npc = "loop"
  /\ ni < Len(nvalues)
  /\ IF ncur["root"].callback = "null"
     THEN /\ npc' = "error"
          /\ UNCHANGED <<ncur, ni, ncalls, nrequests, ninner>>
     ELSE IF nfilter # Null /\ ~Filter(nfilter[1], nvalues[ni + 1], ni)
     THEN /\ ncur' = [ncur EXCEPT !["root"].action = CONTINUE]
          /\ ni' = ni + 1
          /\ UNCHANGED <<npc, ncalls, nrequests, ninner>>
     ELSE \E nests \in BOOLEAN, a \in {CONTINUE, STOP} :
            LET c == Subject(nfilter)
                reset == [ncur EXCEPT !["root"].action = CONTINUE, ![c].action = CONTINUE]
                nested == IF nests THEN nestedEach(reset, nfilter, nvalues) ELSE reset
                acted == IF a = STOP
                         THEN [nested EXCEPT ![c].action = STOP, ![c].result = Undefined]
                         ELSE nested
                after == IF a = STOP /\ c = "view"
                         THEN [acted EXCEPT !["root"].action = STOP, !["root"].result = Undefined]
                         ELSE acted
                n == ArrayLoop(nvalues, ni, after["root"].action, Null)
            IN  /\ ncur' = after
                /\ ni' = n.i
                /\ npc' = IF n.returned THEN "returned" ELSE npc
                /\ ncalls' = Append(ncalls, ni)
                /\ nrequests' = Append(nrequests, a)
                /\ ninner' = IF nests THEN ninner + nestedCalls(nfilter, nvalues) ELSE ninner
  /\ UNCHANGED <<nvalues, nfilter>>
  /\ UNCHANGED notNestVars

\* The array adapter returns and each() of c returns.
NestReturn ==
  /\ npc = "returned" \/ (npc = "loop" /\ ni >= Len(nvalues))
  /\ npc' = "done"
  /\ ncur' = IF nfilter = Null THEN eachLeave(ncur, "root")
             ELSE eachLeave(eachLeave(ncur, "root"), "view")
  /\ UNCHANGED <<nvalues, nfilter, ni, ncalls, nrequests, ninner>>
  /\ UNCHANGED notNestVars

NextNest == NestBegin \/ NestStep \/ NestReturn

(***************************************************************************)
(* drop: two reverse views around a skip view.                             *)
(***************************************************************************)
\* entries() of an array cursor.
arrayEntries(arr) == [x \in 1..Len(arr) |-> <<x - 1, arr[x]>>]

\* entries() of reverse().skip(amount) over the array: the inner reverse
\* hands the entries over from the last to the first, and skip lets the
\* ones after the first amount through.
skippedEntries(arr, amount) ==
  LET e == arrayEntries(arr)
      r == [x \in 1..Len(e) |-> e[Len(e) + 1 - x]]
  IN  SubSeq(r, amount + 1, Len(r))

\* What a viewResolved holds during a traversal.
Resolved(entries) == [values |-> entries, at |-> Len(entries), recorded |-> <<>>]

\* handleAct of viewResolved, after next.act returned a with replacement w:
\* a REMOVE or REPLACE is recorded under the index.
handleAct(rec, index, value, a, w) ==
  IF a \in {REMOVE, REPLACE}
  THEN (index :> [action |-> a, original |-> value, replaces |-> w]) @@ rec
  ELSE rec

\* Variant: the second pass applies what was recorded under the index
\* counted from the other end.
modifyActMirrored(rec, index, value) ==
  IF index + 1 \in DOMAIN rec /\ value = rec[index + 1].original
  THEN rec[index + 1]
  ELSE [action |-> CONTINUE, original |-> value, replaces |-> Null]

\* The callback of viewResolved's second pass: the recorded action is
\* requested when the value is still the recorded one.
modifyAct(rec, index, value) ==
  IF index \in DOMAIN rec /\ value = rec[index].original
  THEN rec[index]
  ELSE [action |-> CONTINUE, original |-> value, replaces |-> Null]

\* The operations run on the drop view and the answers of their callbacks.
DropOps == {Op("array", 0), Op("delete", 0), EachOp}
DropInputs(o) ==
  CASE o.name = "array" -> {Req(CONTINUE, Null, Null)}
    [] o.name = "delete" -> {Req(REMOVE, Null, Null)}
    [] OTHER -> AnyRequests

DropInit ==
  /\ dvalues \in Arrays
  /\ damount \in 0..MaxAmount
  /\ dop = NoOp
  /\ dpc = "idle"
  /\ douter = Resolved(<<>>)
  /\ dinner = Resolved(<<>>)
  /\ dskipped = 0
  /\ dindex = 0
  /\ di = 0
  /\ dreturned = FALSE
  /\ doffered = <<>>
  /\ drequests = <<>>
  /\ dstarted = dvalues

DropIdle ==
  /\ dvalues = <<>>
  /\ damount = 0
  /\ dop = NoOp
  /\ dpc = "idle"
  /\ douter = <<>>
  /\ dinner = <<>>
  /\ dskipped = 0
  /\ dindex = 0
  /\ di = 0
  /\ dreturned = FALSE
  /\ doffered = <<>>
  /\ drequests = <<>>
  /\ dstarted = <<>>

\* An operation on the drop view: the outer reverse takes the entries of
\* reverse().skip(amount) and begins its loop at the last of them.
DropBegin ==
  /\ dpc = "idle"
  /\ dop' \in DropOps
  /\ dpc' = "replay"
  /\ douter' = Resolved(skippedEntries(dvalues, damount))
  /\ UNCHANGED <<dvalues, damount, dinner, dskipped, dindex, di, dreturned,
                 doffered, drequests, dstarted>>
  /\ UNCHANGED notDropVars

\* One iteration of the outer reverse's loop: the entry is offered to the
\* consumer and its answer recorded under the entry's position.
DropReplayStep ==
  /\ dpc = "replay"
  /\ ~dreturned
  /\ douter.at >= 1
  /\ \E r \in DropInputs(dop) :
       LET e == douter.values[douter.at]
       IN  /\ douter' = [douter EXCEPT
                           !.at = @ - 1,
                           !.recorded = handleAct(@, douter.at - 1, e[2], r.act, r.with)]
           /\ doffered' = Append(doffered, e)
           /\ drequests' = Append(drequests, r.act)
           /\ dreturned' = (r.act = STOP)
  /\ UNCHANGED <<dvalues, damount, dop, dpc, dinner, dskipped, dindex, di, dstarted>>
  /\ UNCHANGED notDropVars

\* The outer loop is over: if anything was recorded, the skip view is
\* traversed again, which makes the inner reverse take the array's entries
\* and begin its loop.
DropReplayReturn ==
  /\ dpc = "replay"
  /\ dreturned \/ douter.at < 1
  /\ IF DOMAIN douter.recorded # {}
     THEN /\ dpc' = "apply"
          /\ dinner' = Resolved(arrayEntries(dvalues))
          /\ dskipped' = 0
          /\ dindex' = 0
     ELSE /\ dpc' = "done"
          /\ UNCHANGED <<dinner, dskipped, dindex>>
  /\ UNCHANGED <<dvalues, damount, dop, douter, di, dreturned, doffered, drequests,
                 dstarted>>
  /\ UNCHANGED notDropVars

\* One iteration of the inner reverse's loop in that pass: skip lets the
\* entry through or not; the outer reverse's second-pass callback answers
\* it, skip re-issues the answer, and the inner reverse records it.
DropApplyStep ==
  /\ dpc = "apply"
  /\ dinner.at >= 1
  /\ LET e == dinner.values[dinner.at]
         acts == dskipped >= damount
         a == IF acts THEN modifyAct(douter.recorded, dindex, e[2])
              ELSE [action |-> CONTINUE, original |-> e[2], replaces |-> Null]
     IN  /\ dinner' = [dinner EXCEPT
                         !.at = @ - 1,
                         !.recorded = handleAct(@, dinner.at - 1, e[2], a.action, a.replaces)]
         /\ dindex' = IF acts THEN dindex + 1 ELSE dindex
         /\ dskipped' = dskipped + 1
  /\ UNCHANGED <<dvalues, damount, dop, dpc, douter, di, dreturned, doffered,
                 drequests, dstarted>>
  /\ UNCHANGED notDropVars

\* The inner loop is over: if anything was recorded the array is traversed
\* to apply it.
DropApplyReturn ==
  /\ dpc = "apply"
  /\ dinner.at < 1
  /\ dpc' = IF DOMAIN dinner.recorded # {} THEN "modify" ELSE "done"
  /\ dindex' = 0
  /\ di' = 0
  /\ UNCHANGED <<dvalues, damount, dop, douter, dinner, dskipped, dreturned,
                 doffered, drequests, dstarted>>
  /\ UNCHANGED notDropVars

\* One iteration of the array adapter in the inner reverse's second pass.
DropModifyStep ==
  /\ dpc = "modify"
  /\ di < Len(dvalues)
  /\ LET a == modifyAct(dinner.recorded, dindex, dvalues[di + 1])
         n == ArrayLoop(dvalues, di, a.action, a.replaces)
     IN  /\ dvalues' = n.values
         /\ di' = n.i
  /\ dindex' = dindex + 1
  /\ UNCHANGED <<damount, dop, dpc, douter, dinner, dskipped, dreturned, doffered,
                 drequests, dstarted>>
  /\ UNCHANGED notDropVars

\* The array adapter returns, and with it every traversal.
DropModifyReturn ==
  /\ dpc = "modify"
  /\ di >= Len(dvalues)
  /\ dpc' = "done"
  /\ UNCHANGED <<dvalues, damount, dop, douter, dinner, dskipped, dindex, di,
                 dreturned, doffered, drequests, dstarted>>
  /\ UNCHANGED notDropVars

NextDrop ==
  \/ DropBegin
  \/ DropReplayStep
  \/ DropReplayReturn
  \/ DropApplyStep
  \/ DropApplyReturn
  \/ DropModifyStep
  \/ DropModifyReturn

(***************************************************************************)
(* copy(): Iterate.entries(this.entries()).                                *)
(***************************************************************************)
\* entries() of the array cursor, or of its where view.
filteredEntries(arr, filter) ==
  LET e == arrayEntries(arr)
  IN  Pick(e, {x \in 1..Len(e) : filter = Null \/ Filter(filter[1], e[x][2], e[x][1])}, 1)

\* Variant: the copy is a cursor on the array it was made from.
copyShared(heap, filter) ==
  [cursor |-> [adapter |-> "array", ref |-> 1], heap |-> heap]

\* copy(): entries() fills a new array, and Iterate.entries makes a cursor
\* on it.
copy(heap, filter) ==
  [cursor |-> [adapter |-> "entries", ref |-> 2],
   heap |-> [heap EXCEPT ![2] = filteredEntries(heap[1], filter)]]

\* The entry the adapter gives to act at loop index idx.
EntryAt(cursor, arr, idx) ==
  IF cursor.adapter = "array" THEN <<idx, arr[idx + 1]>> ELSE arr[idx + 1]

\* One iteration of the for loop of Iterate.entries, on the action a (and
\* replacement w) that iterator.act returned.
EntriesLoop(vals, idx, a, w) ==
  CASE a = STOP -> [values |-> vals, i |-> idx, returned |-> TRUE]
    [] a = REMOVE ->
         [values |-> SubSeq(vals, 1, idx) \o SubSeq(vals, idx + 2, Len(vals)),
          i |-> idx, returned |-> FALSE]
    [] a = REPLACE ->
         [values |-> [vals EXCEPT ![idx + 1] = <<vals[idx + 1][1], w[1]>>],
          i |-> idx + 1, returned |-> FALSE]
    [] OTHER -> [values |-> vals, i |-> idx + 1, returned |-> FALSE]

\* The operations run on either cursor: entries(), delete(), overwrite,
\* update and where(p).delete().
CopyOps ==
  {Op("entries", 0), Op("delete", 0), Op("overwrite", Replacement), Op("update", 0)}
    \cup {Op("whereDelete", p) : p \in Filters}

\* What the callback of the operation requests for an entry.
copyAct(o, value, key) ==
  CASE o.name = "delete" -> Req(REMOVE, Null, Null)
    [] o.name = "overwrite" -> Req(REPLACE, Some(o.arg), Null)
    [] o.name = "update" -> Req(REPLACE, Some(Updater(value, key)), Null)
    [] o.name = "whereDelete" /\ Filter(o.arg, value, key) -> Req(REMOVE, Null, Null)
    [] OTHER -> Req(CONTINUE, Null, Null)

CopyInit ==
  /\ yheap \in [{1} -> Arrays]
  /\ yfilter \in {Null} \cup {Some(p) : p \in Filters}
  /\ ycopy = Null
  /\ ytaken = <<>>
  /\ ytarget = "orig"
  /\ yop = NoOp
  /\ yi = 0
  /\ ypc = "idle"
  /\ yoffered = <<>>
  /\ ybefore = yheap
  /\ ytouched = FALSE
  /\ yruns = 0

CopyIdle ==
  /\ yheap = <<>>
  /\ yfilter = Null
  /\ ycopy = Null
  /\ ytaken = <<>>
  /\ ytarget = "orig"
  /\ yop = NoOp
  /\ yi = 0
  /\ ypc = "idle"
  /\ yoffered = <<>>
  /\ ybefore = <<>>
  /\ ytouched = FALSE
  /\ yruns = 0

\* c.copy(), between two operations.
CopyMake ==
  /\ ypc \in {"idle", "done"}
  /\ ycopy = Null
  /\ LET made == copy([r \in {1, 2} |-> IF r = 1 THEN yheap[1] ELSE <<>>], yfilter)
     IN  /\ ycopy' = Some(made.cursor)
         /\ yheap' = made.heap
         /\ ytaken' = filteredEntries(yheap[1], yfilter)
  /\ UNCHANGED <<yfilter, ytarget, yop, yi, ypc, yoffered, ybefore, ytouched, yruns>>
  /\ UNCHANGED notCopyVars

\* An operation begins on the array cursor or on the copy.
CopyBegin ==
  /\ ypc \in {"idle", "done"}
  /\ yruns < MaxRuns
  /\ ytarget' \in IF ycopy = Null THEN {"orig"} ELSE {"orig", "copy"}
  /\ yop' \in CopyOps
  /\ yi' = 0
  /\ ypc' = "loop"
  /\ yoffered' = <<>>
  /\ ybefore' = yheap
  /\ ytouched' = (ytouched \/ (ytarget' = "copy" /\ yop'.name # "entries"))
  /\ yruns' = yruns + 1
  /\ UNCHANGED <<yheap, yfilter, ycopy, ytaken>>
  /\ UNCHANGED notCopyVars

\* One iteration of the loop of the adapter of the cursor operated on.
CopyStep ==
  /\ ypc = "loop"
  /\ LET cursor == IF ytarget = "copy" THEN ycopy[1] ELSE [adapter |-> "array", ref |-> 1]
         arr == yheap[cursor.ref]
     IN  /\ yi < Len(arr)
         /\ LET e == EntryAt(cursor, arr, yi)
                r == copyAct(yop, e[2], e[1])
                n == IF cursor.adapter = "array" THEN ArrayLoop(arr, yi, r.act, r.with)
                     ELSE EntriesLoop(arr, yi, r.act, r.with)
            IN  /\ yheap' = [yheap EXCEPT ![cursor.ref] = n.values]
                /\ yi' = n.i
                /\ yoffered' = Append(yoffered, e)
  /\ UNCHANGED <<yfilter, ycopy, ytaken, ytarget, yop, ypc, ybefore, ytouched, yruns>>
  /\ UNCHANGED notCopyVars

\* The adapter returns.
CopyReturn ==
  /\ ypc = "loop"
  /\ LET cursor == IF ytarget = "copy" THEN ycopy[1] ELSE [adapter |-> "array", ref |-> 1]
     IN  yi >= Len(yheap[cursor.ref])
  /\ ypc' = "done"
  /\ UNCHANGED <<yheap, yfilter, ycopy, ytaken, ytarget, yop, yi, yoffered, ybefore,
                 ytouched, yruns>>
  /\ UNCHANGED notCopyVars

NextCopy == CopyMake \/ CopyBegin \/ CopyStep \/ CopyReturn


(***************************************************************************)
(* changes(onAdd, onRemove, onPresent, getIdentifier).                     *)
(***************************************************************************)

\* getIdentifier: 0 is none given (the value is the map key), 1 is the
\* value's parity.
Identifiers == {0, 1}

\* const mapKey = getIdentifier ? getIdentifier(value, key, iterator) : value
mapKey(ident, value, key) == IF ident = 0 THEN value ELSE value % 2

\* The map keys of the values of an array.
mapKeys(ident, arr) == {mapKey(ident, arr[n], n - 1) : n \in 1..Len(arr)}

\* Map.has on a map kept as the sequence of its entries, in insertion order.
mapHas(map, id) == \E n \in 1..Len(map) : map[n].id = id

\* Map.set of a key the map does not hold.
mapSet(map, id, key, value) == Append(map, [id |-> id, key |-> key, value |-> value])

\* Map.delete.
mapDelete(map, id) == SelectSeq(map, LAMBDA e : e.id # id)

\* if (iterator.result !== IterateAction.REMOVE): result is undefined
\* during each() unless a handler stops the traversal.
keepsAdded(r) == r # Some(REMOVE)

ChangesInit ==
  /\ hsource \in SmallArrays
  /\ hident \in Identifiers
  /\ hhistory = Null
  /\ hnotRemoved = <<>>
  /\ hindex = 0
  /\ hpc = "idle"
  /\ hresult = Null
  /\ hadded = {}
  /\ hpresent = {}
  /\ hremoved = {}
  /\ hnow = {}
  /\ hprev = {}
  /\ hcalls = 0
  /\ hdistinct = TRUE

ChangesIdle ==
  /\ hsource = <<>>
  /\ hident = 0
  /\ hhistory = Null
  /\ hnotRemoved = <<>>
  /\ hindex = 0
  /\ hpc = "idle"
  /\ hresult = Null
  /\ hadded = {}
  /\ hpresent = {}
  /\ hremoved = {}
  /\ hnow = {}
  /\ hprev = {}
  /\ hcalls = 0
  /\ hdistinct = TRUE

\* The owner of the array changes it between two calls.
ChangesModify ==
  /\ hpc \in {"idle", "done"}
  /\ hsource' \in SmallArrays \ {hsource}
  /\ UNCHANGED <<hident, hhistory, hnotRemoved, hindex, hpc, hresult, hadded,
                 hpresent, hremoved, hnow, hprev, hcalls, hdistinct>>
  /\ UNCHANGED notChangesVars

\* changes() is called: the history map is made if there is none,
\* notRemoved is a copy of it, and each() starts.
ChangesBegin ==
  /\ hpc \in {"idle", "done"}
  /\ hcalls < MaxCalls
  /\ LET history == IF hhistory = Null THEN <<>> ELSE hhistory[1]
     IN  /\ hhistory' = Some(history)
         /\ hnotRemoved' = history
  /\ hindex' = 0
  /\ hpc' = "loop"
  /\ hresult' = Null
  /\ hadded' = {}
  /\ hpresent' = {}
  /\ hremoved' = {}
  /\ hnow' = mapKeys(hident, hsource)
  /\ hprev' = hnow
  /\ hcalls' = hcalls + 1
  /\ hdistinct' = (hdistinct /\ Cardinality(mapKeys(hident, hsource)) = Len(hsource))
  /\ UNCHANGED <<hsource, hident>>
  /\ UNCHANGED notChangesVars

\* The callback of each() on one element: the handlers only take note.
ChangesStep ==
  /\ hpc = "loop"
  /\ hindex < Len(hsource)
  /\ LET value == hsource[hindex + 1]
         key == hindex
         id == mapKey(hident, value, key)
         history == hhistory[1]
     IN  /\ IF mapHas(history, id)
              THEN /\ hpresent' = hpresent \cup {id}
                   /\ UNCHANGED <<hadded, hhistory>>
              ELSE /\ hadded' = hadded \cup {id}
                   /\ hhistory' = IF keepsAdded(hresult)
                                    THEN Some(mapSet(history, id, key, value))
                                    ELSE hhistory
                   /\ UNCHANGED hpresent
         /\ hnotRemoved' = mapDelete(hnotRemoved, id)
  /\ hindex' = hindex + 1
  /\ UNCHANGED <<hsource, hident, hpc, hresult, hremoved, hnow, hprev, hcalls,
                 hdistinct>>
  /\ UNCHANGED notChangesVars

\* each() is over: onRemove for every entry left in notRemoved.
ChangesReturn ==
  /\ hpc = "loop"
  /\ hindex >= Len(hsource)
  /\ hremoved' = {hnotRemoved[n].id : n \in 1..Len(hnotRemoved)}
  /\ hpc' = "done"
  /\ UNCHANGED <<hsource, hident, hhistory, hnotRemoved, hindex, hresult, hadded,
                 hpresent, hnow, hprev, hcalls, hdistinct>>
  /\ UNCHANGED notChangesVars

NextChanges == ChangesModify \/ ChangesBegin \/ ChangesStep \/ ChangesReturn


(***************************************************************************)
(* Iterate.iterable and Iterate.hasEntries.                                *)
(***************************************************************************)

\* The adapters with the hooks they may be built with: iterable takes
\* none; the hooks of hasEntries, when given, are those of Iterate.map.
GenericAdapters ==
  {[kind |-> "iterable", onRemove |-> FALSE, onReplace |-> FALSE]}
    \cup {[kind |-> "hasEntries", onRemove |-> r, onReplace |-> p] :
            r \in BOOLEAN, p \in BOOLEAN}

\* map.delete(key): the live iterator of the map goes on with the entry
\* that followed the deleted one.
mapDeleteAt(entries, pos) ==
  [x \in 1..(Len(entries) - 1) |-> IF x < pos THEN entries[x] ELSE entries[x + 1]]

\* map.set(key, newValue) of a key the map holds.
mapSetAt(entries, pos, newValue) ==
  [entries EXCEPT ![pos] = <<entries[pos][1], newValue>>]

\* Whether the adapter has the hook for the action answered.
hasHook(kind, onRemove, onReplace, a) ==
  CASE a = REMOVE -> kind = "hasEntries" /\ onRemove
    [] a = REPLACE -> kind = "hasEntries" /\ onReplace
    [] OTHER -> TRUE

\* The body of the loop of iterable after act: STOP breaks, every other
\* action goes on to the next value.
iterableLoop(entries, pos, r) ==
  IF r.act = STOP
    THEN [entries |-> entries, next |-> pos, pc |-> "done"]
    ELSE [entries |-> entries, next |-> pos + 1, pc |-> "loop"]

\* The switch of hasEntries after act.
hasEntriesLoop(entries, pos, r, onRemove, onReplace) ==
  CASE r.act = STOP -> [entries |-> entries, next |-> pos, pc |-> "done"]
    [] r.act = REMOVE ->
         IF onRemove
           THEN [entries |-> mapDeleteAt(entries, pos), next |-> pos, pc |-> "loop"]
           ELSE [entries |-> entries, next |-> pos + 1, pc |-> "loop"]
    [] r.act = REPLACE ->
         IF onReplace
           THEN [entries |-> mapSetAt(entries, pos, r.with[1]), next |-> pos + 1,
                 pc |-> "loop"]
           ELSE [entries |-> entries, next |-> pos + 1, pc |-> "loop"]
    [] OTHER -> [entries |-> entries, next |-> pos + 1, pc |-> "loop"]

GenericInit ==
  /\ \E a \in GenericAdapters :
       /\ gkind = a.kind
       /\ gonRemove = a.onRemove
       /\ gonReplace = a.onReplace
  /\ gentries \in {arrayEntries(arr) : arr \in SmallArrays}
  /\ gnext = 1
  /\ gpc = "idle"
  /\ goffered = <<>>
  /\ gbefore = gentries
  /\ gunsupported = FALSE
  /\ gchanged = FALSE
  /\ gruns = 0

GenericIdle ==
  /\ gkind = "iterable"
  /\ gonRemove = FALSE
  /\ gonReplace = FALSE
  /\ gentries = <<>>
  /\ gnext = 1
  /\ gpc = "idle"
  /\ goffered = <<>>
  /\ gbefore = <<>>
  /\ gunsupported = FALSE
  /\ gchanged = FALSE
  /\ gruns = 0

\* each(callback) starts: the source function asks the source for its
\* iterator.
GenericBegin ==
  /\ gpc \in {"idle", "done"}
  /\ gruns < MaxRuns
  /\ gnext' = 1
  /\ gpc' = "loop"
  /\ goffered' = <<>>
  /\ gbefore' = gentries
  /\ gunsupported' = FALSE
  /\ gchanged' = FALSE
  /\ gruns' = gruns + 1
  /\ UNCHANGED <<gkind, gonRemove, gonReplace, gentries>>
  /\ UNCHANGED notGenericVars

\* One iteration of the loop of the adapter: the callback answers with any
\* action.
GenericStep ==
  /\ gpc = "loop"
  /\ gnext <= Len(gentries)
  /\ \E r \in AnyRequests :
       LET e == gentries[gnext]
           after == IF gkind = "iterable"
                      THEN iterableLoop(gentries, gnext, r)
                      ELSE hasEntriesLoop(gentries, gnext, r, gonRemove, gonReplace)
           hook == hasHook(gkind, gonRemove, gonReplace, r.act)
       IN  /\ goffered' = Append(goffered, <<e[1], e[2], r.act>>)
           /\ gentries' = after.entries
           /\ gnext' = after.next
           /\ gpc' = after.pc
           /\ gunsupported' = (gunsupported \/ ~hook)
           /\ gchanged' = (gchanged \/ (hook /\ r.act # CONTINUE))
  /\ UNCHANGED <<gkind, gonRemove, gonReplace, gbefore, gruns>>
  /\ UNCHANGED notGenericVars

\* The iterator of the source is done.
GenericReturn ==
  /\ gpc = "loop"
  /\ gnext > Len(gentries)
  /\ gpc' = "done"
  /\ UNCHANGED <<gkind, gonRemove, gonReplace, gentries, gnext, goffered, gbefore,
                 gunsupported, gchanged, gruns>>
  /\ UNCHANGED notGenericVars

NextGeneric == GenericBegin \/ GenericStep \/ GenericReturn


(***************************************************************************)
(* act, stop, remove, replace and withResult.                              *)
(***************************************************************************)

\* A call the callback makes on the iterator it is handed.
Call(name, arg) == [name |-> name, arg |-> arg]

CallsOfCallback ==
  {Call("stop", Null), Call("remove", Null), Call("replace", Some(Replacement))}
    \cup {Call("stop", Some(v)) : v \in SmallValues}

CallSequences == UNION {[1..n -> CallsOfCallback] : n \in 0..MaxRequests}

\* stop(result), remove() and replace(replaceWith) on the fields of the
\* cursor.
call(st, c) ==
  CASE c.name = "stop" -> [st EXCEPT !.result = c.arg, !.action = STOP]
    [] c.name = "remove" -> [st EXCEPT !.action = REMOVE]
    [] OTHER -> [st EXCEPT !.replaceWith = c.arg, !.action = REPLACE]

\* The callback: its made, one after the other.
RECURSIVE callback(_, _)
callback(st, made) ==
  IF made = <<>> THEN st
  ELSE callback(call(st, Head(made)), Tail(made))

\* Variant: act leaves the action and replaceWith of the element before.
actWithoutReset(st, made) == callback(st, made)

\* act(value, key): the action is CONTINUE and replaceWith null before the
\* callback is called.
act(st, made) ==
  callback([st EXCEPT !.action = CONTINUE, !.replaceWith = Null], made)

\* Variant: getResult is called for every result that is not undefined.
withResultDefined(r) == IF r # Null THEN <<r[1]>> ELSE <<>>

\* withResult(getResult): if (this.result) getResult(this.result).  The
\* values getResult is called with; of the numbers only 0 is falsy.
withResult(r) ==
  IF r # Null /\ r[1] # 0 THEN <<r[1]>> ELSE <<>>

NoExchange == [calls |-> <<>>, returned |-> CONTINUE, before |-> <<>>, after |-> <<>>,
               index |-> 0]
NoStop == [called |-> FALSE, arg |-> Null]

ProtocolInit ==
  /\ pvalues \in SmallArrays
  /\ pindex = 0
  /\ ppc = "idle"
  /\ paction = CONTINUE
  /\ preplaceWith = Null
  /\ presult = Null
  /\ pcallback = FALSE
  /\ pexchange = Null
  /\ pprevious = Null
  /\ plastStop = NoStop
  /\ pgot = <<>>
  /\ pasked = FALSE
  /\ pruns = 0

ProtocolIdle ==
  /\ pvalues = <<>>
  /\ pindex = 0
  /\ ppc = "idle"
  /\ paction = CONTINUE
  /\ preplaceWith = Null
  /\ presult = Null
  /\ pcallback = FALSE
  /\ pexchange = Null
  /\ pprevious = Null
  /\ plastStop = NoStop
  /\ pgot = <<>>
  /\ pasked = FALSE
  /\ pruns = 0

\* each(callback) up to the call of the source function.
ProtocolBegin ==
  /\ ppc \in {"idle", "done"}
  /\ pruns < MaxRuns
  /\ presult' = Null
  /\ pcallback' = TRUE
  /\ paction' = CONTINUE
  /\ pindex' = 0
  /\ ppc' = "loop"
  /\ pexchange' = Null
  /\ pprevious' = Null
  /\ plastStop' = NoStop
  /\ pgot' = <<>>
  /\ pasked' = FALSE
  /\ pruns' = pruns + 1
  /\ UNCHANGED <<pvalues, preplaceWith>>
  /\ UNCHANGED notProtocolVars

\* One iteration of the loop of Iterate.array: act, and the switch on what
\* it returned.
ProtocolStep ==
  /\ ppc = "loop"
  /\ pindex < Len(pvalues)
  /\ \E made \in CallSequences :
       LET st == act([action |-> paction, replaceWith |-> preplaceWith,
                      result |-> presult], made)
           after == ArrayLoop(pvalues, pindex, st.action, st.replaceWith)
           stops == {n \in 1..Len(made) : made[n].name = "stop"}
       IN  /\ paction' = st.action
           /\ preplaceWith' = st.replaceWith
           /\ presult' = st.result
           /\ pvalues' = after.values
           /\ pindex' = after.i
           /\ ppc' = IF after.returned THEN "returned" ELSE "loop"
           /\ pexchange' = Some([calls |-> made, returned |-> st.action,
                                 before |-> pvalues, after |-> after.values,
                                 index |-> pindex])
           /\ pprevious' = IF pexchange = Null THEN Null
                           ELSE Some(pexchange[1].returned)
           /\ plastStop' = IF stops = {} THEN plastStop
                           ELSE [called |-> TRUE,
                                 arg |-> made[CHOOSE n \in stops :
                                                 \A o \in stops : o <= n].arg]
  /\ UNCHANGED <<pcallback, pgot, pasked, pruns>>
  /\ UNCHANGED notProtocolVars

\* The source function returns, and each clears the callback.
ProtocolReturn ==
  /\ \/ ppc = "returned"
     \/ ppc = "loop" /\ pindex >= Len(pvalues)
  /\ pcallback' = FALSE
  /\ ppc' = "done"
  /\ UNCHANGED <<pvalues, pindex, paction, preplaceWith, presult, pexchange,
                 pprevious, plastStop, pgot, pasked, pruns>>
  /\ UNCHANGED notProtocolVars

\* withResult(getResult) after the traversal.
ProtocolWithResult ==
  /\ ppc = "done"
  /\ ~pasked
  /\ pgot' = withResult(presult)
  /\ pasked' = TRUE
  /\ UNCHANGED <<pvalues, pindex, ppc, paction, preplaceWith, presult, pcallback,
                 pexchange, pprevious, plastStop, pruns>>
  /\ UNCHANGED notProtocolVars

NextProtocol == ProtocolBegin \/ ProtocolStep \/ ProtocolReturn \/ ProtocolWithResult


(***************************************************************************)
(* Iterate.map and Iterate.set: hasEntries with their hooks, and reset.    *)
(***************************************************************************)

\* The entries() of a Set of the values of arr, and of a Map from the
\* indices of arr to its values.
setEntries(arr) == [x \in 1..Len(arr) |-> <<arr[x], arr[x]>>]
SetSources ==
  {setEntries(arr) : arr \in {a \in SmallArrays : \A x, y \in 1..Len(a) : a[x] = a[y] => x = y}}
MapSources == {arrayEntries(arr) : arr \in SmallArrays}
KeyedSources(kind) == IF kind = "set" THEN SetSources ELSE MapSources

\* The position of the entry of a key, 0 when there is none.
entryOf(entries, key) ==
  IF \E x \in 1..Len(entries) : entries[x][1] = key
  THEN CHOOSE x \in 1..Len(entries) : entries[x][1] = key
  ELSE 0

\* The iterator of a Map or Set is live: after the delete of an entry it
\* had passed it has passed one entry less.
passedAfterDelete(passed, at) == IF at # 0 /\ at <= passed THEN passed - 1 ELSE passed

\* Set.prototype.add: a new value goes to the end of the insertion order.
setAdd(entries, value) ==
  IF entryOf(entries, value) # 0 THEN entries ELSE Append(entries, <<value, value>>)

\* (map, key) => map.delete(key) and (set, key) => set.delete(key), on the
\* source hasEntries refers to.
onRemove(heap, cur, passed, key) ==
  LET at == entryOf(heap[cur], key)
  IN  [heap |-> IF at = 0 THEN heap ELSE [heap EXCEPT ![cur] = mapDeleteAt(@, at)],
       passed |-> passedAfterDelete(passed, at)]

\* (map, key, value, newValue) => map.set(key, newValue) on the source
\* hasEntries refers to, and (set, key, value, newValue) =>
\* values.delete(value) && values.add(newValue) on values, the Set
\* Iterate.set was called with (source 1).
onReplace(kind, heap, cur, passed, key, value, newValue) ==
  IF kind = "map"
    THEN [heap |-> [heap EXCEPT ![cur] = mapSetAt(@, entryOf(@, key), newValue)],
          passed |-> passed]
    ELSE LET at == entryOf(heap[1], value)
         IN  IF at = 0 THEN [heap |-> heap, passed |-> passed]
             ELSE [heap |-> [heap EXCEPT ![1] = setAdd(mapDeleteAt(@, at), newValue)],
                   passed |-> IF cur = 1 THEN passedAfterDelete(passed, at) ELSE passed]

\* The operations run on the cursor.
KeyedOps ==
  {Op("each", 0), Op("delete", 0), Op("overwrite", 0), Op("overwrite", Replacement),
   Op("update", 0)}

\* What the callback of the operation requests for an entry.
keyedAct(o, value, key, any) ==
  CASE o.name = "each" -> any
    [] o.name = "delete" -> Req(REMOVE, Null, Null)
    [] o.name = "overwrite" -> Req(REPLACE, Some(o.arg), Null)
    [] OTHER -> Req(REPLACE, Some(Updater(value, key)), Null)

KeyedInit ==
  /\ rkind \in {"map", "set"}
  /\ rheap \in {[s \in {1, 2} |-> IF s = 1 THEN e ELSE <<>>] : e \in KeyedSources(rkind)}
  /\ rsource = 1
  /\ rop = NoOp
  /\ rnext = 0
  /\ rpc = "idle"
  /\ roffered = <<>>
  /\ rstart = <<>>
  /\ rreset = FALSE
  /\ rfrozen = <<>>
  /\ rruns = 0

KeyedIdle ==
  /\ rkind = "map"
  /\ rheap = <<>>
  /\ rsource = 1
  /\ rop = NoOp
  /\ rnext = 0
  /\ rpc = "idle"
  /\ roffered = <<>>
  /\ rstart = <<>>
  /\ rreset = FALSE
  /\ rfrozen = <<>>
  /\ rruns = 0

\* reset(source): handleReset is source => hasEntries = source.
KeyedReset ==
  /\ rpc \in {"idle", "done"}
  /\ ~rreset
  /\ \E e \in KeyedSources(rkind) : rheap' = [rheap EXCEPT ![2] = e]
  /\ rsource' = 2
  /\ rreset' = TRUE
  /\ rfrozen' = rheap[1]
  /\ UNCHANGED <<rkind, rop, rnext, rpc, roffered, rstart, rruns>>
  /\ UNCHANGED notKeyedVars

\* An operation begins: the source function calls hasEntries.entries().
KeyedBegin ==
  /\ rpc \in {"idle", "done"}
  /\ rruns < MaxRuns
  /\ rop' \in KeyedOps
  /\ rnext' = 0
  /\ rpc' = "loop"
  /\ roffered' = <<>>
  /\ rstart' = rheap[rsource]
  /\ rruns' = rruns + 1
  /\ UNCHANGED <<rkind, rheap, rsource, rreset, rfrozen>>
  /\ UNCHANGED notKeyedVars

\* One iteration of the loop of hasEntries: the next entry of the iterator,
\* act, and the switch on what it returned.
KeyedStep ==
  /\ rpc = "loop"
  /\ rnext < Len(rheap[rsource])
  /\ Len(roffered) < MaxOffers
  /\ \E any \in AnyRequests :
       LET e == rheap[rsource][rnext + 1]
           q == keyedAct(rop, e[2], e[1], any)
           after ==
             CASE q.act = REMOVE -> onRemove(rheap, rsource, rnext + 1, e[1])
               [] q.act = REPLACE ->
                    onReplace(rkind, rheap, rsource, rnext + 1, e[1], e[2], q.with[1])
               [] OTHER -> [heap |-> rheap, passed |-> rnext + 1]
       IN  /\ roffered' = Append(roffered, e[2])
           /\ rheap' = after.heap
           /\ rnext' = after.passed
           /\ rpc' = IF q.act = STOP THEN "done" ELSE "loop"
  /\ UNCHANGED <<rkind, rsource, rop, rstart, rreset, rfrozen, rruns>>
  /\ UNCHANGED notKeyedVars

\* The iterator of the source is done.
KeyedReturn ==
  /\ rpc = "loop"
  /\ rnext >= Len(rheap[rsource])
  /\ rpc' = "done"
  /\ UNCHANGED <<rkind, rheap, rsource, rop, rnext, roffered, rstart, rreset,
                 rfrozen, rruns>>
  /\ UNCHANGED notKeyedVars

NextKeyed == KeyedReset \/ KeyedBegin \/ KeyedStep \/ KeyedReturn


(***************************************************************************)
(* iterate(s) and Generators.  A string is the sequence of its characters; *)
(* every element is a string, so that a character offered and a whole      *)
(* string offered are values of one kind.                                  *)
(***************************************************************************)
Strings == SmallArrays
Characters(s) == [x \in 1..Len(s) |-> <<s[x]>>]

Source(type, items) == [type |-> type, items |-> items]

\* What iterate is called with: a string, an array, Set or Map of
\* one-character strings, an Iterate over such an array, a number (NaN,
\* which is falsy, or a truthy one), null, or an object with such values.
Sources ==
  {Source(t, s) : t \in {"string"}, s \in Strings}
    \cup {Source(t, Characters(s)) :
            t \in {"array", "iterate", "object"}, s \in Strings}
    \cup {Source(t, Characters(s)) :
            t \in {"set", "map"},
            s \in {a \in Strings : \A x, y \in 1..Len(a) : a[x] = a[y] => x = y}}
    \cup {Source("number", <<b>>) : b \in BOOLEAN}
    \cup {Source("null", <<>>)}

\* Whether s is truthy: '' , NaN and null are not.
truthy(s) ==
  CASE s.type = "string" -> s.items # <<>>
    [] s.type = "number" -> s.items[1]
    [] s.type = "null" -> FALSE
    [] OTHER -> TRUE

\* The cursors the generators make: the adapter and the elements it offers.
Cursor(adapter, elements) == [adapter |-> adapter, elements |-> elements]

\* The elements of a source given to the generator of position g when
\* that source is a string, a number or null: the string iterator gives
\* the characters, Iterate.array([s]) the one element s.
elementsOf(s) == IF s.type = "string" THEN Characters(s.items) ELSE s.items
itemOf(s) ==
  CASE s.type = "string" -> <<s.items>>
    [] s.type = "number" -> <<(IF s.items[1] THEN <<1>> ELSE <<0>>)>>
    [] OTHER -> <<>>

GeneratorCount == 9

\* Generators[g](s), from 1: null stands for false.
Generators(g, s) ==
  CASE g = 1 -> IF s.type = "iterate" THEN Some(Cursor("array", s.items)) ELSE Null
    [] g = 2 -> IF s.type = "array" THEN Some(Cursor("array", s.items)) ELSE Null
    [] g = 3 -> IF s.type = "set" THEN Some(Cursor("set", s.items)) ELSE Null
    [] g = 4 -> IF s.type = "map" THEN Some(Cursor("map", s.items)) ELSE Null
    [] g = 5 -> IF truthy(s) /\ s.type \in {"string", "array", "set", "map", "iterate"}
                THEN Some(Cursor("iterable", elementsOf(s))) ELSE Null
    [] g = 6 -> IF truthy(s) /\ s.type \in {"array", "set", "map"}
                THEN Some(Cursor("hasEntries", s.items)) ELSE Null
    [] g = 7 -> IF s.type = "null" THEN Some(Cursor("empty", <<>>)) ELSE Null
    [] g = 8 -> IF s.type \in {"object", "array", "set", "map", "iterate", "null"}
                THEN Some(Cursor("object", s.items)) ELSE Null
    [] OTHER -> Some(Cursor("array", itemOf(s)))

IterateInit ==
  /\ usource \in Sources
  /\ ugenerator = 1
  /\ ucursor = Null
  /\ upc = "generators"
  /\ uindex = 0
  /\ uoffered = <<>>

IterateIdle ==
  /\ usource = Source("null", <<>>)
  /\ ugenerator = 1
  /\ ucursor = Null
  /\ upc = "generators"
  /\ uindex = 0
  /\ uoffered = <<>>

\* One iteration of for (const generator of Generators): what is not false
\* is returned.
IterateGenerator ==
  /\ upc = "generators"
  /\ ugenerator <= GeneratorCount
  /\ LET generated == Generators(ugenerator, usource)
     IN  IF generated # Null
           THEN /\ ucursor' = generated
                /\ upc' = "made"
                /\ UNCHANGED ugenerator
           ELSE /\ ugenerator' = ugenerator + 1
                /\ UNCHANGED <<ucursor, upc>>
  /\ UNCHANGED <<usource, uindex, uoffered>>
  /\ UNCHANGED notIterateVars

\* array() on the cursor returned begins.
IterateBegin ==
  /\ upc = "made"
  /\ upc' = "loop"
  /\ uindex' = 0
  /\ uoffered' = <<>>
  /\ UNCHANGED <<usource, ugenerator, ucursor>>
  /\ UNCHANGED notIterateVars

\* One iteration of the loop of the adapter: the callback of array()
\* pushes the element.
IterateStep ==
  /\ upc = "loop"
  /\ uindex < Len(ucursor[1].elements)
  /\ uoffered' = Append(uoffered, ucursor[1].elements[uindex + 1])
  /\ uindex' = uindex + 1
  /\ UNCHANGED <<usource, ugenerator, ucursor, upc>>
  /\ UNCHANGED notIterateVars

IterateReturn ==
  /\ upc = "loop"
  /\ uindex >= Len(ucursor[1].elements)
  /\ upc' = "done"
  /\ UNCHANGED <<usource, ugenerator, ucursor, uindex, uoffered>>
  /\ UNCHANGED notIterateVars

NextIterate == IterateGenerator \/ IterateBegin \/ IterateStep \/ IterateReturn


(***************************************************************************)
(* exclude and intersect with a source that is the cursor itself or a view *)
(* of it.                                                                  *)
(***************************************************************************)
Other(kind, arg) == [kind |-> kind, arg |-> arg]

\* iterate(source) returns a cursor that is given as it is, and makes an
\* array cursor for an array.
Others ==
  {Other("self", <<>>)} \cup {Other("where", <<p>>) : p \in Filters}
    \cup {Other("array", b) : b \in SmallArrays}

\* Whether contains finds the value: some element of the array passes the
\* filter of the where view, if the source is one, and is equal to it.
found(other, vals, value) ==
  CASE other.kind = "self" -> contains(vals, value, 0)
    [] other.kind = "where" ->
         \E x \in 1..Len(vals) :
           Filter(other.arg[1], vals[x], x - 1) /\ Equals(0, vals[x], value)
    [] OTHER -> contains(other.arg, value, 0)

\* values.contains(value) run inside the callback of the outer traversal:
\* where(..).has() traverses the other source.  When that source is the
\* cursor a or a view of it, each() runs on a: its callback is replaced,
\* has() stops it at the element found, and each() clears its callback.
containsReenters(cur, other, vals, value) ==
  IF other.kind = "array" THEN cur
  ELSE LET entered == eachEnter(cur, "root", "inner")
           stopped == IF found(other, vals, value)
                      THEN [entered EXCEPT !["root"].action = STOP]
                      ELSE entered
       IN  eachLeave(stopped, "root")

ReentryInit ==
  /\ xvalues \in SmallArrays
  /\ xother \in Others
  /\ xkind \in SetKinds
  /\ xcur = [id \in {"root"} |-> NewCursor]
  /\ xi = 0
  /\ xpc = "idle"
  /\ xoffered = <<>>

ReentryIdle ==
  /\ xvalues = <<>>
  /\ xother = Other("self", <<>>)
  /\ xkind = "exclude"
  /\ xcur = <<>>
  /\ xi = 0
  /\ xpc = "idle"
  /\ xoffered = <<>>

\* a.exclude(other).array() or a.intersect(other).array(): the closure of
\* the view calls getData and then each() of a.
ReentryBegin ==
  /\ xpc = "idle"
  /\ xcur' = eachEnter(xcur, "root", "outer")
  /\ xi' = 0
  /\ xpc' = "loop"
  /\ xoffered' = <<>>
  /\ UNCHANGED <<xvalues, xother, xkind>>
  /\ UNCHANGED notReentryVars

\* One iteration of the array adapter of a: act calls the callback of a,
\* which fails when there is none; the callback of the view asks
\* shouldAct, hands the value on when it says so, and array() answers
\* CONTINUE; the adapter goes by the action a then has.
ReentryStep ==
  /\ xpc = "loop"
  /\ xi < Len(xvalues)
  /\ IF xcur["root"].callback # "outer"
     THEN /\ xpc' = "error"
          /\ UNCHANGED <<xcur, xi, xoffered>>
     ELSE LET value == xvalues[xi + 1]
              reset == [xcur EXCEPT !["root"].action = CONTINUE]
              after == containsReenters(reset, xother, xvalues, value)
              acts == IF xkind = "exclude" THEN ~found(xother, xvalues, value)
                      ELSE found(xother, xvalues, value)
              n == ArrayLoop(xvalues, xi, after["root"].action, Null)
          IN  /\ xcur' = after
              /\ xoffered' = IF acts THEN Append(xoffered, <<xi, value>>) ELSE xoffered
              /\ xi' = n.i
              /\ xpc' = IF n.returned THEN "returned" ELSE "loop"
  /\ UNCHANGED <<xvalues, xother, xkind>>
  /\ UNCHANGED notReentryVars

\* The array adapter returns and each() of a clears the callback.
ReentryReturn ==
  /\ xpc = "returned" \/ (xpc = "loop" /\ xi >= Len(xvalues))
  /\ xcur' = eachLeave(xcur, "root")
  /\ xpc' = "done"
  /\ UNCHANGED <<xvalues, xother, xkind, xi, xoffered>>
  /\ UNCHANGED notReentryVars

NextReentry == ReentryBegin \/ ReentryStep \/ ReentryReturn

\* The view methods, with their arguments, that a caller may apply.
AnyViewCalls == ViewCalls(AllViews \cup LazyViews) \cup DropCalls

StreamViewCalls == ViewCalls(StreamViews)

\* The terminal operations a caller may run.
AnyOps == ReadOps \cup Mutations

EachOps == {EachOp, Op("first", 0)}

\* Any chain of views, then operations and mutations on it.
Next ==
  \/ Construct(AnyViewCalls)
  \/ Begin(AnyOps)
  \/ ArrayStep
  \/ ArrayReturn
  \/ ReplayStep
  \/ ReplayReturn

Init == ArrInit(Arrays) /\ TreeIdle /\ LinkIdle /\ JoinIdle /\ SetIdle /\ CmpIdle /\ ZipIdle /\ NestIdle /\ DropIdle /\ CopyIdle /\ ChangesIdle /\ GenericIdle /\ ProtocolIdle /\ KeyedIdle /\ IterateIdle /\ ReentryIdle

Spec == Init /\ [][Next]_vars

\* A chain with a sorted or reverse view, then each() with any callback.
ResolvedViewCalls ==
  ViewCalls(ResolvedViews \cup {where(p) : p \in Filters}
              \cup {take(a) : a \in 1..MaxAmount})

OnlyEach == {EachOp}

NextResolved ==
  \/ Construct(ResolvedViewCalls)
  \/ Begin(OnlyEach)
  \/ ArrayStep
  \/ ArrayReturn
  \/ ReplayStep
  \/ ReplayReturn

InitResolved == Init /\ ReentryIdle

SpecResolved == InitResolved /\ [][NextResolved]_vars

\* A chain of non-buffering views, then each() with any callback, or first().
NextEach ==
  \/ Construct(StreamViewCalls)
  \/ Begin(EachOps)
  \/ ArrayStep
  \/ ArrayReturn

SpecEach == Init /\ [][NextEach]_vars

ArrIdle == ArrInit({<<>>})

InitTree == ArrIdle /\ TreeInit /\ LinkIdle /\ JoinIdle /\ SetIdle /\ CmpIdle /\ ZipIdle /\ NestIdle /\ DropIdle /\ CopyIdle /\ ChangesIdle /\ GenericIdle /\ ProtocolIdle /\ KeyedIdle /\ IterateIdle /\ ReentryIdle

SpecTree == InitTree /\ [][NextTree]_vars

InitLinked == ArrIdle /\ TreeIdle /\ LinkInit /\ JoinIdle /\ SetIdle /\ CmpIdle /\ ZipIdle /\ NestIdle /\ DropIdle /\ CopyIdle /\ ChangesIdle /\ GenericIdle /\ ProtocolIdle /\ KeyedIdle /\ IterateIdle /\ ReentryIdle

SpecLinked == InitLinked /\ [][NextLinked]_vars

InitJoin == ArrIdle /\ TreeIdle /\ LinkIdle /\ JoinInit /\ SetIdle /\ CmpIdle /\ ZipIdle /\ NestIdle /\ DropIdle /\ CopyIdle /\ ChangesIdle /\ GenericIdle /\ ProtocolIdle /\ KeyedIdle /\ IterateIdle /\ ReentryIdle

SpecJoin == InitJoin /\ [][NextJoin]_vars

InitSet == ArrIdle /\ TreeIdle /\ LinkIdle /\ JoinIdle /\ SetInit /\ CmpIdle /\ ZipIdle /\ NestIdle /\ DropIdle /\ CopyIdle /\ ChangesIdle /\ GenericIdle /\ ProtocolIdle /\ KeyedIdle /\ IterateIdle /\ ReentryIdle

SpecSet == InitSet /\ [][NextSet]_vars

InitCmp == ArrIdle /\ TreeIdle /\ LinkIdle /\ JoinIdle /\ SetIdle /\ CmpInit /\ ZipIdle /\ NestIdle /\ DropIdle /\ CopyIdle /\ ChangesIdle /\ GenericIdle /\ ProtocolIdle /\ KeyedIdle /\ IterateIdle /\ ReentryIdle

SpecCmp == InitCmp /\ [][NextCmp]_vars

InitZip == ArrIdle /\ TreeIdle /\ LinkIdle /\ JoinIdle /\ SetIdle /\ CmpIdle /\ ZipInit /\ NestIdle /\ DropIdle /\ CopyIdle /\ ChangesIdle /\ GenericIdle /\ ProtocolIdle /\ KeyedIdle /\ IterateIdle /\ ReentryIdle

SpecZip == InitZip /\ [][NextZip]_vars

InitNest == ArrIdle /\ TreeIdle /\ LinkIdle /\ JoinIdle /\ SetIdle /\ CmpIdle /\ ZipIdle /\ NestInit /\ DropIdle /\ CopyIdle /\ ChangesIdle /\ GenericIdle /\ ProtocolIdle /\ KeyedIdle /\ IterateIdle /\ ReentryIdle

SpecNest == InitNest /\ [][NextNest]_vars

InitDrop == ArrIdle /\ TreeIdle /\ LinkIdle /\ JoinIdle /\ SetIdle /\ CmpIdle /\ ZipIdle /\ NestIdle /\ DropInit /\ CopyIdle /\ ChangesIdle /\ GenericIdle /\ ProtocolIdle /\ KeyedIdle /\ IterateIdle /\ ReentryIdle

SpecDrop == InitDrop /\ [][NextDrop]_vars

InitCopy == ArrIdle /\ TreeIdle /\ LinkIdle /\ JoinIdle /\ SetIdle /\ CmpIdle /\ ZipIdle /\ NestIdle /\ DropIdle /\ CopyInit /\ ChangesIdle /\ GenericIdle /\ ProtocolIdle /\ KeyedIdle /\ IterateIdle /\ ReentryIdle

SpecCopy == InitCopy /\ [][NextCopy]_vars

InitChanges == ArrIdle /\ TreeIdle /\ LinkIdle /\ JoinIdle /\ SetIdle /\ CmpIdle /\ ZipIdle /\ NestIdle /\ DropIdle /\ CopyIdle /\ ChangesInit /\ GenericIdle /\ ProtocolIdle /\ KeyedIdle /\ IterateIdle /\ ReentryIdle

SpecChanges == InitChanges /\ [][NextChanges]_vars

InitGeneric == ArrIdle /\ TreeIdle /\ LinkIdle /\ JoinIdle /\ SetIdle /\ CmpIdle /\ ZipIdle /\ NestIdle /\ DropIdle /\ CopyIdle /\ ChangesIdle /\ GenericInit /\ ProtocolIdle /\ KeyedIdle /\ IterateIdle /\ ReentryIdle

SpecGeneric == InitGeneric /\ [][NextGeneric]_vars

InitProtocol == ArrIdle /\ TreeIdle /\ LinkIdle /\ JoinIdle /\ SetIdle /\ CmpIdle /\ ZipIdle /\ NestIdle /\ DropIdle /\ CopyIdle /\ ChangesIdle /\ GenericIdle /\ ProtocolInit /\ KeyedIdle /\ IterateIdle /\ ReentryIdle

SpecProtocol == InitProtocol /\ [][NextProtocol]_vars

InitKeyed == ArrIdle /\ TreeIdle /\ LinkIdle /\ JoinIdle /\ SetIdle /\ CmpIdle /\ ZipIdle /\ NestIdle /\ DropIdle /\ CopyIdle /\ ChangesIdle /\ GenericIdle /\ ProtocolIdle /\ KeyedInit /\ IterateIdle /\ ReentryIdle

SpecKeyed == InitKeyed /\ [][NextKeyed]_vars

InitIterate == ArrIdle /\ TreeIdle /\ LinkIdle /\ JoinIdle /\ SetIdle /\ CmpIdle /\ ZipIdle /\ NestIdle /\ DropIdle /\ CopyIdle /\ ChangesIdle /\ GenericIdle /\ ProtocolIdle /\ KeyedIdle /\ IterateInit /\ ReentryIdle

SpecIterate == InitIterate /\ [][NextIterate]_vars

InitReentry == ArrIdle /\ TreeIdle /\ LinkIdle /\ JoinIdle /\ SetIdle /\ CmpIdle /\ ZipIdle /\ NestIdle /\ DropIdle /\ CopyIdle /\ ChangesIdle /\ GenericIdle /\ ProtocolIdle /\ KeyedIdle /\ IterateIdle /\ ReentryInit

SpecReentry == InitReentry /\ [][NextReentry]_vars

(***************************************************************************)
(* Properties of array-backed cursors.                                     *)
(***************************************************************************)
\* The consumer's answer to the pair it was offered last was STOP.
StopRequested == requests # <<>> /\ requests[Len(requests)] = STOP

\* The values of a list of <<key, value>> pairs.
ValuesOf(pairs) == [x \in 1..Len(pairs) |-> pairs[x][2]]

\* The elements of s at the positions in keep, in order.
RECURSIVE Keep(_, _, _)
Keep(s, keep, x) ==
  IF x > Len(s) THEN <<>>
  ELSE (IF x \in keep THEN <<s[x]>> ELSE <<>>) \o Keep(s, keep, x + 1)

HasView(v) == \E m \in 1..N : chain[m] = v

\* C1: in a traversal through where/not/skip/take/transform/values/readonly
\* views, once the consumer has requested STOP no callback is invoked and no
\* element is visited any more; first() through views that forward every
\* element visits exactly one element of a non-empty array.
C1_StopHalts ==
  /\ [][(StopRequested /\ runs' = runs) =>
          (calls' = calls /\ visits' = visits /\ offered' = offered)]_vars
  /\ []((op.name = "first" /\ pc = "done" /\ orig # <<>>
          /\ \A m \in 1..N : chain[m] \in {valuesView, readonly}) => visits = 1)

C1_Witness ==
  /\ pc = "done" /\ op = EachOp /\ StopRequested
  /\ N = 2 /\ chain[1].kind = "where" /\ chain[2].kind = "transform"
  /\ Len(offered) = 2 /\ visits < Len(values)

\* C2: each() straight on an array with REMOVE requested on any subset of
\* the elements offers every element of the array once, in order, and
\* leaves the elements not removed, in order.
C2_RemoveKeepsOrder ==
  (pc = "done" /\ N = 0 /\ op = EachOp
     /\ \A x \in 1..Len(requests) : requests[x] \in {CONTINUE, REMOVE})
  => /\ ValuesOf(offered) = orig
     /\ values = Keep(orig, {x \in 1..Len(orig) : requests[x] # REMOVE}, 1)

C2_Witness ==
  /\ pc = "done" /\ N = 0 /\ op = EachOp
  /\ requests = <<REMOVE, REMOVE, CONTINUE>>
  /\ Len(values) = 1

\* C3: where(p).delete() leaves the elements that do not satisfy p, in
\* order; where(p).overwrite(v) puts v at the positions whose element
\* satisfied p and leaves the others.
C3_WhereMutations ==
  (pc = "done" /\ N = 1 /\ chain[1].kind = "where")
  => LET p == chain[1].arg
         sat == {x \in 1..Len(orig) : Filter(p, orig[x], x - 1)}
     IN  /\ op.name = "delete" => values = Keep(orig, (1..Len(orig)) \ sat, 1)
         /\ op.name = "overwrite" =>
              /\ Len(values) = Len(orig)
              /\ \A x \in 1..Len(orig) :
                   values[x] = IF x \in sat THEN op.arg ELSE orig[x]

C3_Witness ==
  /\ pc = "done" /\ N = 1 /\ chain[1] = where(0) /\ op = Op("delete", 0)
  /\ orig = <<0, 1, 0>> /\ values = <<1>>

\* C4: sorted(cmp).take(k).delete() removes the first k elements of the
\* sorted order (ties in source order) and keeps the others in order.
C4_SortedTakeDelete ==
  (pc = "done" /\ N = 2 /\ chain[1].kind = "sorted"
     /\ chain[2].kind \in {"take", "empty"} /\ op.name = "delete")
  => LET cmp == chain[1].arg
         amount == IF chain[2].kind = "take" THEN chain[2].arg ELSE 0
         n == Len(orig)
         Before(x, y) ==
           \/ Compare(cmp, orig[x], orig[y]) < 0
           \/ Compare(cmp, orig[x], orig[y]) = 0 /\ x < y
         first == {x \in 1..n : Cardinality({y \in 1..n : Before(y, x)}) < amount}
     IN  values = Keep(orig, (1..n) \ first, 1)

C4_Witness ==
  /\ pc = "done" /\ chain = <<sorted(0), take(2)>> /\ op = Op("delete", 0)
  /\ orig = <<1, 0, 1>> /\ values = <<1>>

\* C6: a call of a view method visits no element, changes no element and
\* invokes no callback.
C6_ViewsAreLazy ==
  [][chain' # chain =>
       (visits' = visits /\ values' = values /\ calls' = calls /\ passes' = passes
         /\ pc' = "idle")]_vars

C6_Witness ==
  /\ pc = "idle" /\ N = MaxChain /\ values # <<>> /\ chain[1].kind = "sorted"

\* C7: the same read-only operation run twice on the same view of an
\* unchanged array returns the same result.
C7_SameResultTwice ==
  (pc = "done" /\ last # Null /\ op \in ReadOps /\ last[1].op = op)
  => Outcome = last[1]

C7_Witness ==
  /\ pc = "done" /\ last # Null /\ op = Op("array", 0) /\ last[1].op = op
  /\ chain = <<unique(0), take(2)>> /\ Len(offered) = 2

\* C8: no mutation made through a readonly() view or a view derived from it
\* changes the array, and a STOP requested above the readonly view ends the
\* traversal of the array.
C8_Readonly ==
  /\ [](HasView(readonly) => values = initial)
  /\ [][(HasView(readonly) /\ StopRequested /\ runs' = runs) => visits' = visits]_vars

C8_Witness ==
  /\ pc = "done" /\ runs = 2 /\ op = Op("delete", 0) /\ last # Null
  /\ last[1].op = Op("update", 0)
  /\ chain = <<readonly, where(0)>> /\ Len(offered) = 2

C8_WitnessStop ==
  /\ pc = "done" /\ op.name = "first" /\ chain = <<readonly, where(1)>>
  /\ StopRequested /\ visits = 2 /\ Len(values) = 3

(***************************************************************************)
(* Properties of tree cursors.                                             *)
(***************************************************************************)
\* C5: in a depth-first traversal, once the consumer has requested STOP at
\* a node, whatever its depth, no further node is offered: only the last
\* request of a traversal can be STOP.
C5_StopCeasesAll ==
  tconf.depthFirst =>
    \A x \in 1..(Len(trequests) - 1) : trequests[x] # STOP

\* The request made for the node offered last is one the adapter cannot
\* apply to the tree.
Unappliable ==
  LET a == trequests[Len(trequests)]
      node == toffered[Len(toffered)]
  IN  \/ a = REPLACE /\ ~tconf.hasReplace
      \/ a = REMOVE /\ ~tconf.depthFirst
      \/ a = REMOVE /\ tconf.depthFirst /\ node = 1

\* C9: with strict = true, every REMOVE or REPLACE request that the adapter
\* cannot apply throws: REPLACE without a setter, REMOVE in breadth-first
\* order, REMOVE of the starting node of a depth-first traversal.
C9_StrictThrows ==
  (tconf.strict /\ trequests # <<>> /\ Unappliable) => tpc = "error"

(***************************************************************************)
(* Properties of linked-list cursors.                                      *)
(***************************************************************************)
\* The nodes of a list from node x on, up to null or previousNode.
RECURSIVE ListFrom(_, _)
ListFrom(nxt, x) ==
  IF x = 0 \/ x = 1 THEN <<>> ELSE <<x>> \o ListFrom(nxt, nxt[x])

\* The request a needs a hook the list iterator was built without.
MissingHook(a) ==
  \/ a = REMOVE /\ ~lconf.hasRemove
  \/ a = REPLACE /\ ~lconf.hasReplace

\* C10: a REMOVE (REPLACE) request on a list iterator built without the
\* remove (replace) hook throws when strict is true; when strict is false
\* it is ignored: the list is unchanged and the traversal goes on to offer
\* every remaining node.
C10_LinkedWithoutHooks ==
  /\ (lconf.strict /\ lrequests # <<>> /\ MissingHook(lrequests[Len(lrequests)]))
       => lpc = "error"
  /\ (~lconf.strict /\ lpc # "idle"
        /\ \A x \in 1..Len(lrequests) :
             lrequests[x] = CONTINUE \/ MissingHook(lrequests[x]))
       => LET all == ListFrom(lnext0, lnext0[1])
          IN  /\ lpc # "error"
              /\ lnext = lnext0
              /\ lvalue = [x \in ListNodes |-> x]
              /\ loffered = SubSeq(all, 1, Len(loffered))
              /\ loffered \o ListFrom(lnext, lcurr) = all
              /\ lpc = "done" => loffered = all

C10_Witness ==
  /\ lpc = "done" /\ ~lconf.strict /\ ~lconf.hasRemove /\ ~lconf.hasReplace
  /\ lrequests = <<REMOVE, REPLACE, CONTINUE>>
  /\ loffered = <<2, 3, 4>>

C10_WitnessStrict ==
  /\ lpc = "error" /\ lconf.strict /\ ~lconf.hasRemove
  /\ lrequests = <<CONTINUE, REMOVE>>

\* C11: with the relink hook, a traversal that requests REMOVE on any subset
\* of the nodes offers every node of the list once, in order, and leaves
\* the list, followed from its entry point, holding the nodes not removed
\* in their original order.
C11_LinkedRemove ==
  (lconf.hasRemove /\ lpc = "done"
     /\ \A x \in 1..Len(lrequests) : lrequests[x] \in {CONTINUE, REMOVE})
  => LET all == ListFrom(lnext0, lnext0[1])
     IN  /\ loffered = all
         /\ ListFrom(lnext, lnext[1])
              = Keep(all, {x \in 1..Len(all) : lrequests[x] # REMOVE}, 1)

C11_Witness ==
  /\ lpc = "done" /\ lconf.hasRemove
  /\ lrequests = <<REMOVE, REMOVE, CONTINUE>>
  /\ loffered = <<2, 3, 4>>
  /\ ListFrom(lnext, lnext[1]) = <<4>>

\* The pre-order of the subtree of node n: n, then the pre-order of each
\* child's subtree in child order.
RECURSIVE PreOrder(_, _), PreOrderFrom(_, _, _)
PreOrder(ch, n) == <<n>> \o PreOrderFrom(ch, n, 1)

PreOrderFrom(ch, n, x) ==
  IF x > Len(ch[n]) THEN <<>>
  ELSE PreOrder(ch, ch[n][x]) \o PreOrderFrom(ch, n, x + 1)

IsChild(ch, p, n) == \E x \in 1..Len(ch[p]) : ch[p][x] = n

\* The node n and its ancestors up to the starting node.
RECURSIVE Lineage(_, _)
Lineage(ch, n) ==
  IF n = 1 THEN {1}
  ELSE {n} \cup Lineage(ch, CHOOSE p \in Nodes : IsChild(ch, p, n))

Depth(ch, n) == Cardinality(Lineage(ch, n)) - 1

\* The position of an element in a sequence without repetitions.
IndexOf(s, e) == CHOOSE x \in 1..Len(s) : s[x] = e

\* The nodes a traversal answered with REMOVE.
RemovedIn(off, reqs) == {off[x] : x \in {y \in 1..Len(off) : reqs[y] = REMOVE}}

\* A depth-first traversal that ran to its end with REMOVE requested on
\* some nodes other than the starting node and CONTINUE on the others.
RemovesOnly(reqs) ==
  /\ reqs # <<>> /\ reqs[1] = CONTINUE
  /\ \A x \in 1..Len(reqs) : reqs[x] \in {CONTINUE, REMOVE}

\* C12: in a depth-first traversal REMOVE on a node other than the starting
\* node takes the node out of its parent's children; every node is still
\* offered once, in pre-order, during that traversal; a later traversal
\* offers exactly the nodes that were not removed and have no removed
\* ancestor.
C12_TreeRemove ==
  /\ (tconf.depthFirst /\ tpc = "done" /\ tfirst = Null /\ RemovesOnly(trequests))
       => LET gone == RemovedIn(toffered, trequests)
          IN  /\ toffered = PreOrder(tchildren0, 1)
              /\ \A n \in Nodes :
                   tchildren[n] =
                     Keep(tchildren0[n],
                          {x \in 1..Len(tchildren0[n]) : tchildren0[n][x] \notin gone}, 1)
  /\ (tconf.depthFirst /\ tpc = "done" /\ tfirst # Null
        /\ RemovesOnly(tfirst[1].requests)
        /\ \A x \in 1..Len(trequests) : trequests[x] = CONTINUE)
       => LET before == tfirst[1].offered
              gone == RemovedIn(before, tfirst[1].requests)
          IN  toffered =
                Keep(before,
                     {x \in 1..Len(before) : Lineage(tchildren0, before[x]) \cap gone = {}},
                     1)

C12_Witness ==
  /\ tconf.depthFirst /\ tpc = "done" /\ tfirst # Null
  /\ tchildren0 = <<<<2, 3, 4>>, <<>>, <<>>, <<>>>>
  /\ tfirst[1].requests = <<CONTINUE, REMOVE, REMOVE, CONTINUE>>
  /\ trequests = <<CONTINUE, CONTINUE>>
  /\ toffered = <<1, 4>>

\* C13: a traversal in which nothing is removed or stopped offers every
\* node of the tree once: depth-first in pre-order, breadth-first level by
\* level, each level from left to right.
C13_TreeOrder ==
  (tpc = "done" /\ \A x \in 1..Len(trequests) : trequests[x] \in {CONTINUE, REPLACE})
  => LET pre == PreOrder(tchildren, 1)
     IN  /\ Len(toffered) = Len(pre)
         /\ {toffered[x] : x \in 1..Len(toffered)} = {pre[x] : x \in 1..Len(pre)}
         /\ tconf.depthFirst => toffered = pre
         /\ ~tconf.depthFirst =>
              \A x, y \in 1..Len(toffered) :
                x < y =>
                  \/ Depth(tchildren, toffered[x]) < Depth(tchildren, toffered[y])
                  \/ /\ Depth(tchildren, toffered[x]) = Depth(tchildren, toffered[y])
                     /\ IndexOf(pre, toffered[x]) < IndexOf(pre, toffered[y])

C13_Witness ==
  /\ tpc = "done" /\ ~tconf.depthFirst /\ tfirst = Null
  /\ tchildren = <<<<2, 3>>, <<4>>, <<>>, <<>>>>
  /\ trequests = <<CONTINUE, CONTINUE, CONTINUE, CONTINUE>>
  /\ toffered = <<1, 2, 3, 4>>

C13_WitnessDepth ==
  /\ tpc = "done" /\ tconf.depthFirst /\ tfirst = Null
  /\ tchildren = <<<<2, 3>>, <<4>>, <<>>, <<>>>>
  /\ trequests = <<CONTINUE, CONTINUE, CONTINUE, CONTINUE>>
  /\ toffered = <<1, 2, 4, 3>>

(***************************************************************************)
(* Properties of joined cursors.                                           *)
(***************************************************************************)
\* The values a cursor forwards of an array: all of them, all but the first
\* amount, or the first amount.
ElementsOf(cursor, arrays) ==
  LET arr == arrays[cursor.arr]
      v == cursor.view
  IN  CASE v.kind = "skip" -> SubSeq(arr, v.arg + 1, Len(arr))
        [] v.kind = "take" -> SubSeq(arr, 1, IF v.arg < Len(arr) THEN v.arg ELSE Len(arr))
        [] v.kind = "empty" -> <<>>
        [] OTHER -> arr

OfferedValues == [x \in 1..Len(joffered) |-> joffered[x][3]]

\* C14: a.append(b) offers the elements of a in order, then those of b in
\* order; a.prepend(b) offers those of b, then those of a; also when a and
\* b are skip/take views of the same cursor.
C14_AppendPrepend ==
  (jpc = "done" /\ \A x \in 1..Len(jrequests) : jrequests[x] = CONTINUE)
  => OfferedValues =
       IF jconf.kind = "append"
       THEN ElementsOf(jconf.a, jarr0) \o ElementsOf(jconf.b, jarr0)
       ELSE ElementsOf(jconf.b, jarr0) \o ElementsOf(jconf.a, jarr0)

C14_Witness ==
  /\ jpc = "done" /\ jconf.kind = "prepend"
  /\ jconf.a = [arr |-> 1, view |-> skip(2)]
  /\ jconf.b = [arr |-> 1, view |-> take(1)]
  /\ jarr0[1] = <<1, 2, 3>>
  /\ OfferedValues = <<1, 3>>

C14_WitnessAppend ==
  /\ jpc = "done" /\ jconf.kind = "append"
  /\ jconf.a = [arr |-> 1, view |-> skip(2)]
  /\ jconf.b = [arr |-> 1, view |-> take(1)]
  /\ jarr0[1] = <<1, 2, 3>>
  /\ OfferedValues = <<3, 1>>

\* C15: once the consumer of a joined cursor has requested STOP, nothing
\* more is offered, of the same child or of a later one.
C15_JoinStop ==
  /\ [](\A x \in 1..(Len(jrequests) - 1) : jrequests[x] # STOP)
  /\ [][(jrequests # <<>> /\ jrequests[Len(jrequests)] = STOP)
          => (joffered' = joffered /\ jarr' = jarr)]_vars

C15_Witness ==
  /\ jpc = "done" /\ jchild = 1
  /\ jconf.kind = "append" /\ jconf.a.view = self /\ jconf.b = [arr |-> 2, view |-> self]
  /\ jarr0 = <<<<1, 2, 3>>, <<1, 2>>>>
  /\ jrequests = <<CONTINUE, STOP>>

(***************************************************************************)
(* Properties of exclude and intersect.                                    *)
(***************************************************************************)
\* The pairs of a whose position is in keep, in order.
PairsAt(arr, keep) ==
  Keep([x \in 1..Len(arr) |-> <<x - 1, arr[x]>>], keep, 1)

\* C16: over the same two arrays and equality, exclude forwards exactly the
\* elements of a with no equal element in b, intersect exactly those with
\* one, both in a's order: every element of a is forwarded by exactly one
\* of the two.
C16_ExcludeIntersect ==
  (eresults # <<>> /\ eresults["exclude"] # Null /\ eresults["intersect"] # Null)
  => LET e == IF eeq = Null THEN 0 ELSE eeq[1]
         in == {x \in 1..Len(ea) : \E y \in 1..Len(eb) : Equals(e, eb[y], ea[x])}
         ex == eresults["exclude"][1]
         it == eresults["intersect"][1]
     IN  /\ ex = PairsAt(ea, (1..Len(ea)) \ in)
         /\ it = PairsAt(ea, in)
         /\ \A x \in 1..Len(ea) :
              (\E y \in 1..Len(ex) : ex[y][1] = x - 1)
                # (\E y \in 1..Len(it) : it[y][1] = x - 1)

C16_Witness ==
  /\ eresults # <<>>
  /\ ea = <<1, 2>> /\ eb = <<0, 0>> /\ eeq = Some(1)
  /\ eresults["exclude"] = Some(<<<<0, 1>>>>)
  /\ eresults["intersect"] = Some(<<<<1, 2>>>>)

(***************************************************************************)
(* Properties of transform.                                                *)
(***************************************************************************)
\* C17: when the consumer of transform(mapper, unmapper) requests REPLACE
\* with w at an element of value v and key k, the array's element becomes
\* unmapper(w, mapper(v), v, k); without an unmapper the array stays as it
\* was. Elements with another answer stay as they were.
C17_TransformReplace ==
  (pc = "done" /\ N = 1 /\ chain[1].kind = "transform" /\ op = EachOp
     /\ \A x \in 1..Len(requests) : requests[x] # REMOVE)
  => LET t == chain[1].arg
         Replaced(key) ==
           \E x \in 1..Len(requests) :
             offered[x][1] = key /\ requests[x] = REPLACE
     IN  /\ Len(values) = Len(orig)
         /\ \A x \in 1..Len(orig) :
              values[x] =
                IF Replaced(x - 1) /\ HasUntransformer(t)
                THEN Untransformer(t, Replacement,
                       Transformer(t, orig[x])[1], orig[x], x - 1)
                ELSE orig[x]

C17_Witness ==
  /\ pc = "done" /\ chain = <<transform(1)>> /\ op = EachOp
  /\ orig = <<0, 1, 1>>
  /\ requests = <<CONTINUE, REPLACE, REPLACE>>
  /\ values = <<0, Replacement - 11 + 2 + 3, Replacement - 11 + 2 + 6>>

C17_WitnessDropped ==
  /\ pc = "done" /\ chain = <<transform(0)>> /\ op = EachOp
  /\ orig = <<0, 1>>
  /\ requests = <<REPLACE, REPLACE>>
  /\ values = <<0, 1>>

(***************************************************************************)
(* Properties of the comparison logic.                                     *)
(***************************************************************************)
\* C18: a sorted / gt / lt / unique view, when traversed, orders and
\* matches with the comparator and equality its parent had when the view
\* was made, whatever the parent was given since.
C18_LogicIsSnapshot ==
  (cpc = "done" /\ cop = "view")
  => IF cview.kind = "unique"
     THEN cresult = viewArray("unique", 0, carr, getEquality(cview.inline, cview.equality))
     ELSE (cview.inline # Null \/ cview.comparator # Null)
            => \A g \in getComparator(cview.inline, cview.comparator) :
                 cresult = viewArray(cview.kind, cview.arg, carr, g.cmp)

\* C19: sorted, gt, lt, min and max on a cursor with no comparator, and
\* none given inline, end in an error.
C19_ComparatorRequired ==
  (cop \in {"view", "min", "max"} /\ cfrom = "default") => cpc = "error"

(***************************************************************************)
(* Properties of zip.                                                      *)
(***************************************************************************)
\* The lesser of the number of keys and values when the traversal began.
Pairs ==
  IF Len(zstarted.keys) < Len(zstarted.values)
  THEN Len(zstarted.keys) ELSE Len(zstarted.values)

\* C20: zip over two arrays offers the pairs (K[i], V[i]) for the indices
\* below the lesser length, in order; after where(p).delete() both arrays
\* have lost exactly the entries at the indices whose pair satisfied p.
C20_ZipAligned ==
  /\ (zpc = "done" /\ zop.name = "entries")
     => /\ zoffered = [x \in 1..Pairs |-> <<zstarted.keys[x], zstarted.values[x]>>]
        /\ zk = zstarted.keys
        /\ zv = zstarted.values
  /\ (zpc = "done" /\ zop.name = "delete")
     => LET hit == {x \in 1..Pairs :
                      zipFilter(zop.arg, zstarted.values[x], zstarted.keys[x])}
        IN  /\ zk = Keep(zstarted.keys, (1..Len(zstarted.keys)) \ hit, 1)
            /\ zv = Keep(zstarted.values, (1..Len(zstarted.values)) \ hit, 1)

C20_Witness ==
  /\ zpc = "done" /\ zop = Op("delete", 0)
  /\ zstarted = [keys |-> <<0, 1, 0>>, values |-> <<0, 1, 1>>]
  /\ zk = <<1>> /\ zv = <<1>>

C20_WitnessShorter ==
  /\ zpc = "done" /\ zop = Op("entries", 0)
  /\ zk = <<1, 0>> /\ zv = <<0, 1, 1>>
  /\ zoffered = <<<<1, 0>>, <<0, 1>>>>

\* C21: once the consumer of a zip traversal has requested STOP no later
\* pair is offered, so first() is offered the pair (K[0], V[0]) alone and
\* returns V[0].
C21_ZipStop ==
  (zop.name = "first")
  => /\ Len(zoffered) <= 1
     /\ (zpc = "done" /\ Pairs >= 1)
        => zoffered = <<<<zstarted.keys[1], zstarted.values[1]>>>>

(***************************************************************************)
(* Properties of clone.                                                    *)
(***************************************************************************)
\* The keys of the elements the cursor forwards, in order.
Forwarded ==
  Pick([x \in 1..Len(nvalues) |-> x - 1],
       {x \in 1..Len(nvalues) : nfilter = Null \/ Filter(nfilter[1], nvalues[x], x - 1)}, 1)

\* C22: complete read-only traversals of c.clone() run inside the callback
\* of a traversal of c leave that traversal as it would be without them:
\* it does not fail, its callback is invoked once for each element c
\* forwards, in order, until it stops, and c's action is the one its
\* callback requested last.
C22_CloneIsolates ==
  /\ npc # "error"
  /\ ncalls = SubSeq(Forwarded, 1, Len(ncalls))
  /\ npc = "done"
     => /\ (ncalls = Forwarded \/ nrequests[Len(nrequests)] = STOP)
        /\ nrequests # <<>>
           => ncur[Subject(nfilter)].action = nrequests[Len(nrequests)]

\* The same for a cursor made directly from the array.
C22_CloneOfArrayCursor == (ncur # <<>> /\ nfilter = Null) => C22_CloneIsolates

C22_WitnessRoot ==
  /\ npc = "done" /\ nfilter = Null /\ ninner = 6
  /\ Len(nvalues) = 3 /\ ncalls = <<0, 1, 2>>

(***************************************************************************)
(* Properties of keys and values.                                          *)
(***************************************************************************)
\* C23: the i-th element (from 0) a values() view or a keys() view offers
\* has key i.
C23_IndexKeys ==
  (N = 1 /\ chain[1].kind \in {"values", "keys"})
  => \A x \in 1..Len(offered) : offered[x][1] = x - 1

\* The same for keys() alone.
C23_KeysIndexed ==
  (N = 1 /\ chain[1].kind = "keys")
  => \A x \in 1..Len(offered) : offered[x][1] = x - 1

C23_WitnessKeys ==
  /\ pc = "done" /\ chain = <<keysView>> /\ op = EachOp
  /\ requests = <<REMOVE, CONTINUE, CONTINUE>>
  /\ offered = <<<<0, 0>>, <<1, 0>>, <<2, 1>>>>

\* What the array becomes when the x-th element on is answered by the
\* requests from the x-th on, a REPLACE putting w in the element's place
\* when replaces holds and nothing otherwise.
RECURSIVE Answered(_, _, _, _, _)
Answered(arr, reqs, x, replaces, w) ==
  IF x > Len(reqs) \/ x > Len(arr) THEN SubSeq(arr, x, Len(arr))
  ELSE CASE reqs[x] = STOP -> SubSeq(arr, x, Len(arr))
         [] reqs[x] = REMOVE -> Answered(arr, reqs, x + 1, replaces, w)
         [] reqs[x] = REPLACE /\ replaces -> <<w>> \o Answered(arr, reqs, x + 1, replaces, w)
         [] OTHER -> <<arr[x]>> \o Answered(arr, reqs, x + 1, replaces, w)

\* C24: through keys() a REMOVE removes the entry and a REPLACE changes
\* nothing; through values() a REMOVE removes the entry and a REPLACE puts
\* the new value in its place.
C24_KeysValuesMutations ==
  (pc = "done" /\ N = 1 /\ chain[1].kind \in {"values", "keys"} /\ op = EachOp)
  => values = Answered(orig, requests, 1, chain[1].kind = "values", Replacement)

C24_Witness ==
  /\ pc = "done" /\ chain = <<keysView>> /\ op = EachOp
  /\ orig = <<0, 1, 1>>
  /\ requests = <<REPLACE, REMOVE, REPLACE>>
  /\ values = <<0, 1>>

C24_WitnessValues ==
  /\ pc = "done" /\ chain = <<valuesView>> /\ op = EachOp
  /\ orig = <<0, 1, 1>>
  /\ requests = <<REPLACE, REMOVE, REPLACE>>
  /\ values = <<Replacement, Replacement>>

(***************************************************************************)
(* Properties of unique and duplicates.                                    *)
(***************************************************************************)
\* The positions of arr with no equal element before them.
FirstOf(arr, e) ==
  {x \in 1..Len(arr) : \A y \in 1..(x - 1) : ~Equals(e, arr[y], arr[x])}

\* C25: unique() forwards the first element of each class of equal
\* elements, in order, and duplicates(false) every other element, so that
\* duplicates(false).delete() leaves the array that unique().array() would
\* have returned.
C25_UniqueDuplicates ==
  (pc = "done" /\ N = 1 /\ chain[1].kind \in {"unique", "duplicates"}
     /\ ~onlyOnceOf(chain[1]) /\ op.name \in {"array", "delete"})
  => LET e == isEqualOf(chain[1])
         first == FirstOf(orig, e)
         all == 1..Len(orig)
     IN  /\ (chain[1].kind = "unique" /\ op.name = "array")
            => ValuesOf(offered) = Keep(orig, first, 1) /\ values = orig
         /\ (chain[1].kind = "duplicates" /\ op.name = "array")
            => ValuesOf(offered) = Keep(orig, all \ first, 1) /\ values = orig
         /\ (chain[1].kind = "duplicates" /\ op.name = "delete")
            => values = Keep(orig, first, 1)
         /\ (chain[1].kind = "unique" /\ op.name = "delete")
            => values = Keep(orig, all \ first, 1)

C25_Witness ==
  /\ pc = "done" /\ chain = <<duplicates(FALSE, 1)>> /\ op = Op("delete", 0)
  /\ orig = <<1, 2, 0>> /\ values = <<1, 2>>

C25_WitnessUnique ==
  /\ pc = "done" /\ chain = <<unique(0)>> /\ op = Op("array", 0)
  /\ orig = <<1, 0, 1>> /\ ValuesOf(offered) = <<1, 0>>

(***************************************************************************)
(* Properties of skip, take and drop.                                      *)
(***************************************************************************)
\* The entries of arr at the indices lo .. hi - 1 (from 0), in order.
Window(arr, lo, hi) ==
  [x \in 1..(IF hi > lo THEN hi - lo ELSE 0) |-> <<lo + x - 1, arr[lo + x]>>]

\* C26: skip(a).take(b) over an array of length L offers the elements at
\* the indices a .. min(a + b, L) - 1, in order; take(n) with n <= 0 offers
\* nothing, and skip(a) with a >= L offers nothing.
C26_SkipTake ==
  (pc = "done" /\ op = Op("array", 0))
  => LET L == Len(orig)
         Least(x, y) == IF x < y THEN x ELSE y
     IN  /\ \A a \in 0..MaxAmount, b \in (-1)..MaxAmount :
              chain = <<skip(a), take(b)>>
                => offered = Window(orig, a, Least(a + b, L))
         /\ \A n \in (-1)..0 : chain = <<take(n)>> => offered = <<>>
         /\ \A a \in 0..MaxAmount :
              chain = <<skip(a)>> => offered = Window(orig, a, L)

C26_Witness ==
  /\ pc = "done" /\ op = Op("array", 0) /\ chain = <<skip(1), take(1)>>
  /\ orig = <<0, 1, 0>> /\ offered = <<<<1, 1>>>>

C26_WitnessPastEnd ==
  /\ pc = "done" /\ op = Op("array", 0) /\ chain = <<skip(2)>>
  /\ Len(orig) = 2 /\ offered = <<>>

\* C27: drop(n) over an array of length L offers the first max(L - n, 0)
\* elements in the array's order, and drop(n).delete() removes them and
\* leaves the last min(n, L) elements in order.
C27_Drop ==
  (dpc = "done" /\ dop.name \in {"array", "delete"})
  => LET L == Len(dstarted)
         kept == IF L > damount THEN L - damount ELSE 0
     IN  /\ doffered = Window(dstarted, 0, kept)
         /\ dop.name = "array" => dvalues = dstarted
         /\ dop.name = "delete" => dvalues = SubSeq(dstarted, kept + 1, L)

C27_Witness ==
  /\ dpc = "done" /\ dop = Op("delete", 0) /\ damount = 1
  /\ dstarted = <<0, 1, 1>> /\ dvalues = <<1>>
  /\ doffered = <<<<0, 0>>, <<1, 1>>>>

C27_WitnessAll ==
  /\ dpc = "done" /\ dop = Op("array", 0) /\ damount = 2
  /\ Len(dstarted) = 2 /\ doffered = <<>>

(***************************************************************************)
(* Properties of copy.                                                     *)
(***************************************************************************)
\* C28: an operation run on the copy leaves the array the copy was made
\* from as it was, and an operation run on that array leaves unchanged what
\* the copy yields: until the copy itself is mutated it yields the entries
\* its cursor had when copy() was called.
C28_CopyIsolated ==
  (ycopy # Null /\ ypc \in {"loop", "done"})
  => /\ ytarget = "copy" => yheap[1] = ybefore[1]
     /\ (ytarget = "copy" /\ ypc = "done" /\ ~ytouched) => yoffered = ytaken
     /\ (ytarget = "orig" /\ 2 \in DOMAIN ybefore) => yheap[2] = ybefore[2]

C28_Witness ==
  /\ ycopy # Null /\ ypc = "done" /\ ytarget = "copy" /\ yop = Op("delete", 0)
  /\ ybefore[2] = <<<<0, 0>>, <<1, 1>>>> /\ yheap[2] = <<>>
  /\ yheap[1] = <<0, 1>>

C28_WitnessLater ==
  /\ ycopy # Null /\ ypc = "done" /\ ytarget = "copy" /\ yop = Op("entries", 0)
  /\ yheap[1] = <<>> /\ yoffered = <<<<0, 0>>, <<1, 1>>>> /\ ~ytouched

\* C29: a changes() call on sources with pairwise distinct identifiers
\* invokes onAdd exactly for the identifiers in the source now and not at
\* the previous call, onPresent exactly for those in it at both calls, and
\* onRemove exactly for those in it at the previous call and not now; at
\* the first call every value is added.
C29_Changes ==
  (hpc = "done" /\ hdistinct) =>
    /\ hadded = hnow \ hprev
    /\ hpresent = hnow \cap hprev
    /\ hremoved = hprev \ hnow

\* C29, the first call and the call after it: there the handlers are
\* invoked as stated.
C29_FirstTwoCalls ==
  (hpc = "done" /\ hdistinct /\ hcalls <= 2) =>
    /\ hadded = hnow \ hprev
    /\ hpresent = hnow \cap hprev
    /\ hremoved = hprev \ hnow

C29_WitnessSecond ==
  /\ hpc = "done"
  /\ hdistinct
  /\ hcalls = 2
  /\ hadded # {}
  /\ hpresent # {}
  /\ hremoved # {}

\* C30: once a REMOVE or REPLACE was answered to an iterable cursor, or to
\* a hasEntries cursor built without the hook for it, the traversal has
\* ended in a thrown error.
C30_CapabilityError == gunsupported => gpc = "error"

\* C30, what the adapters do instead: a REMOVE or REPLACE without its hook
\* is dropped; a traversal that answered nothing else but CONTINUE ends
\* with the source as it was and every entry offered once, in order.
C30_Dropped ==
  (gpc = "done" /\ ~gchanged) =>
    /\ gentries = gbefore
    /\ Len(goffered) = Len(gbefore)
    /\ \A x \in 1..Len(gbefore) :
         goffered[x][1] = gbefore[x][1] /\ goffered[x][2] = gbefore[x][2]

C30_WitnessDropped ==
  /\ gpc = "done"
  /\ ~gchanged
  /\ gunsupported
  /\ Len(gbefore) = MaxSmallLen
  /\ goffered[1][3] = REMOVE
  /\ goffered[2][3] = REPLACE

\* C31, as stated: after a traversal withResult calls getResult with v
\* exactly when the traversal was stopped by stop(v) with a value v, and
\* does not call it when the traversal ran to its end or was stopped
\* without a value.
C31_WithResult ==
  pasked =>
    pgot = IF paction = STOP /\ presult # Null THEN <<presult[1]>> ELSE <<>>

\* C31, amended: after a traversal withResult calls getResult with v
\* exactly when the last stop call of the traversal passed a truthy v; it
\* does not call it when stop was not called in the traversal, when its
\* last call passed no value, and when it passed a falsy value such as 0.
C31_WithTruthyResult ==
  pasked =>
    pgot = IF plastStop.called /\ plastStop.arg # Null /\ plastStop.arg[1] # 0
             THEN <<plastStop.arg[1]>>
             ELSE <<>>

C31_Witness ==
  /\ pasked
  /\ paction = STOP
  /\ plastStop.arg = Some(MaxSmallVal)
  /\ pgot = <<MaxSmallVal>>

C31_WitnessFalsy ==
  /\ pasked
  /\ paction = STOP
  /\ plastStop.arg = Some(0)
  /\ pgot = <<>>

C31_WitnessSecondRun ==
  /\ pasked
  /\ pruns = 2
  /\ ~plastStop.called
  /\ pgot = <<>>

\* The action of the call made last, CONTINUE when none was made.
Requested(made) ==
  IF made = <<>> THEN CONTINUE
  ELSE CASE made[Len(made)].name = "stop" -> STOP
         [] made[Len(made)].name = "remove" -> REMOVE
         [] OTHER -> REPLACE

\* C39: after an exchange the one action in effect is that of the call the
\* callback made last, and CONTINUE when it made none, whatever was
\* requested for the element before; the array adapter carries out that
\* action only: after remove() or replace() followed by stop() the array
\* is as it was.
C39_OneAction ==
  pexchange # Null =>
    LET x == pexchange[1]
    IN  /\ x.returned = Requested(x.calls)
        /\ paction = x.returned
        /\ x.returned \in {STOP, CONTINUE} => x.after = x.before
        /\ x.returned = REMOVE =>
             x.after = SubSeq(x.before, 1, x.index)
                         \o SubSeq(x.before, x.index + 2, Len(x.before))
        /\ x.returned = REPLACE =>
             x.after = [x.before EXCEPT ![x.index + 1] = Replacement]

C39_Witness ==
  /\ pexchange # Null
  /\ pexchange[1].calls = <<Call("remove", Null), Call("stop", Null)>>
  /\ pexchange[1].returned = STOP
  /\ pexchange[1].after = pexchange[1].before

C39_WitnessReplaceStop ==
  /\ pexchange # Null
  /\ pexchange[1].calls = <<Call("replace", Some(Replacement)), Call("stop", Some(1))>>
  /\ pexchange[1].returned = STOP
  /\ pexchange[1].after = pexchange[1].before

C39_WitnessNoRequest ==
  /\ pexchange # Null
  /\ pprevious = Some(REMOVE)
  /\ pexchange[1].calls = <<>>
  /\ pexchange[1].returned = CONTINUE

\* C32: desc() without an argument on a cursor that has no comparator
\* leaves it without one.
C32_DescNoEffect == cbare => ccmp = Null

\* C32, what happens instead: sorted, gt, lt, min or max afterwards calls
\* the comparator desc() left and ends in the error its call throws.
C32_WitnessThrows ==
  /\ cbare
  /\ cop \in {"view", "min", "max"}
  /\ cfrom = "own"
  /\ cpc = "error"

\* C33: after reset(newSource) on a Map or Set cursor the source the cursor
\* was made for is never modified again, and a traversal offers values of
\* newSource as they were when it began or values it has put there.
C33_ResetSwitches ==
  rreset =>
    /\ rheap[1] = rfrozen
    /\ rpc # "idle" =>
         \A x \in 1..Len(roffered) :
           \/ \E y \in 1..Len(rstart) : rstart[y][2] = roffered[x]
           \/ rop.name \in {"each", "overwrite", "update"}
                /\ \E y \in 1..Len(rheap[2]) : rheap[2][y][2] = roffered[x]

\* C33 for Iterate.map alone: there the statement holds.
C33_MapResetSwitches == rkind = "map" => C33_ResetSwitches

C33_WitnessMap ==
  /\ rkind = "map"
  /\ rreset
  /\ rpc = "done"
  /\ rop.name = "overwrite"
  /\ Len(roffered) = MaxSmallLen
  /\ rfrozen # <<>>
  /\ rheap[2] # rstart

\* C37: overwrite(v) and update(f) over a Set cursor offer values of the
\* set as it was when the traversal began, each once and in its order: a
\* value the traversal added is not offered in it.
C37_SetReplaceOnce ==
  (rkind = "set" /\ rop.name \in {"overwrite", "update"}) =>
    /\ Len(roffered) <= Len(rstart)
    /\ \A x \in 1..Len(roffered) : x <= Len(rstart) => roffered[x] = rstart[x][2]

\* C37 for Iterate.map: there overwrite and update end having offered each
\* entry once.
C37_MapReplaceOnce ==
  (rkind = "map" /\ rop.name \in {"overwrite", "update"}) =>
    /\ Len(roffered) <= Len(rstart)
    /\ \A x \in 1..Len(roffered) : roffered[x] = rstart[x][2]
    /\ rpc = "done" => Len(roffered) = Len(rstart)

\* C37, what happens instead: overwrite(v) on a set offers v time and again.
C37_WitnessEndless ==
  /\ rkind = "set"
  /\ ~rreset
  /\ rop = Op("overwrite", Replacement)
  /\ rpc = "loop"
  /\ Len(rstart) = 1
  /\ Len(roffered) = MaxOffers
  /\ rnext < Len(rheap[rsource])

\* C34: the cursor iterate(s) returns is what the first generator of
\* Generators that matches s makes, and for a string s it offers the
\* characters of s in order, as many elements as s is long.
C34_IterateString ==
  /\ ucursor # Null =>
       /\ ucursor = Generators(ugenerator, usource)
       /\ \A g \in 1..(ugenerator - 1) : Generators(g, usource) = Null
  /\ (upc = "done" /\ usource.type = "string") =>
       /\ Len(uoffered) = Len(usource.items)
       /\ uoffered = Characters(usource.items)

\* C34 for the strings that are not empty: there the statement holds.
C34_IterateNonEmptyString ==
  /\ ucursor # Null =>
       /\ ucursor = Generators(ugenerator, usource)
       /\ \A g \in 1..(ugenerator - 1) : Generators(g, usource) = Null
  /\ (upc = "done" /\ usource.type = "string" /\ usource.items # <<>>) =>
       /\ Len(uoffered) = Len(usource.items)
       /\ uoffered = Characters(usource.items)

C34_WitnessString ==
  /\ upc = "done"
  /\ usource.type = "string"
  /\ Len(usource.items) = MaxSmallLen
  /\ ucursor[1].adapter = "iterable"

\* C34, the empty string: the last generator makes Iterate.array(['']),
\* which offers one element.
C34_WitnessEmptyString ==
  /\ upc = "done"
  /\ usource = Source("string", <<>>)
  /\ ugenerator = GeneratorCount
  /\ uoffered = <<<<>>>>

\* C35: whenever no traversal of the list cursor is in progress, after
\* each() returned and after it was left by a thrown error alike, the
\* cursor's callback is cleared.
C35_CallbackCleared == lpc \in {"idle", "done", "error"} => ~lcallback

\* C35 without the error: before each() and after it returned the callback
\* is cleared, and during the traversal it is set.
C35_ClearedOnReturn ==
  /\ lpc \in {"idle", "done"} => ~lcallback
  /\ lpc = "loop" => lcallback

C35_WitnessReturned ==
  /\ lpc = "done"
  /\ Len(loffered) = MaxList - 1
  /\ ~lcallback

\* The array after the actions recorded for the entries of the snapshot are
\* applied to the elements those entries came from: the key of an entry is
\* the index of its element.
AppliedToSnapshot ==
  LET at(a) == {x \in 1..Len(resolved) : resolved[x][1] = a - 1}
      rec(a) == {x \in at(a) : (x - 1) \in DOMAIN recorded}
      removed == {a \in 1..Len(orig) :
                    \E x \in rec(a) : recorded[x - 1].action = REMOVE}
      after == [a \in 1..Len(orig) |->
                  IF \E x \in rec(a) : recorded[x - 1].action = REPLACE
                  THEN recorded[(CHOOSE x \in rec(a) : TRUE) - 1].replaces[1]
                  ELSE orig[a]]
  IN  Keep(after, (1..Len(orig)) \ removed, 1)

C36_WitnessOnePass ==
  /\ pc = "done"
  /\ chain = <<reverse>>
  /\ op = EachOp
  /\ Len(orig) = MaxLen
  /\ requests = <<CONTINUE, STOP>>
  /\ passes = 1

\* The pairs of the array whose value the view lets through.
Members ==
  LET keep == {x \in 1..Len(xvalues) :
                 (xkind = "intersect") = found(xother, xvalues, xvalues[x])}
  IN  Keep([x \in 1..Len(xvalues) |-> <<x - 1, xvalues[x]>>], keep, 1)

\* C38: during a traversal of a.exclude(other) or a.intersect(other), also
\* when other is a or a view of a, the callback of a stays the one of the
\* outer traversal, and the traversal ends having offered every element
\* the view lets through.
C38_NoReentry ==
  /\ xpc \in {"loop", "returned"} => xcur["root"].callback = "outer"
  /\ xpc # "error"
  /\ xpc = "done" => xoffered = Members

\* C38 for a source that is an array of its own: there the statement holds.
C38_OtherArray == xother.kind = "array" => C38_NoReentry

C38_WitnessOtherArray ==
  /\ xpc = "done"
  /\ xother.kind = "array"
  /\ xkind = "intersect"
  /\ Len(xvalues) = MaxSmallLen
  /\ Len(xoffered) = 1

\* C38, what happens instead: the callback of a is cleared by the inner
\* traversal and the next act of a fails.
C38_WitnessError ==
  /\ xpc = "error"
  /\ xother.kind = "where"
  /\ xkind = "intersect"
  /\ xcur["root"].callback = "null"

C38_WitnessCutShort ==
  /\ xpc = "done"
  /\ xother.kind = "self"
  /\ xkind = "intersect"
  /\ Len(xvalues) = MaxSmallLen
  /\ Len(xoffered) = 1
  /\ Len(Members) = MaxSmallLen

====
